---- MODULE Spec2Model ----
(***************************************************************************)
(* SCHELETRO Manager (src/app.py): the sale transaction engine.            *)
(*                                                                         *)
(* The remote store holds three whole-table sheets (Inventario,            *)
(* Ventas_Cabecera, Ventas_Detalle).  Sessions of one Streamlit process    *)
(* share the st.cache_data tiers; every store access of a script run is    *)
(* one step, so that the runs of different sessions interleave at the      *)
(* network calls.  Money is kept in integer cents.                         *)
(***************************************************************************)
EXTENDS Integers, Sequences, FiniteSets, TLC

(***************************************************************************)
(* Bounds of the model                                                     *)
(***************************************************************************)
MaxStock == 1        \* largest initial Stock_Casa of the first SKU
MaxAdds == 2         \* presses of "Añadir al carrito" over all sessions
MaxCommits == 2      \* presses of REGISTRAR VENTA over all sessions
MaxFaults == 1       \* store calls that fail (rate limit or other error)
MaxTransfers == 1    \* presses of Transferir over all sessions
MaxTable == 2        \* identifiers in an allocator input table
MaxCalls == 3        \* load_raw_sheet / save_sheet calls of the read harness

(***************************************************************************)
(* Program constants                                                       *)
(***************************************************************************)
SHEET_INVENTARIO == "Inventario"
SHEET_VENTAS_CAB == "Ventas_Cabecera"
SHEET_VENTAS_DET == "Ventas_Detalle"
Sheets == {SHEET_INVENTARIO, SHEET_VENTAS_CAB, SHEET_VENTAS_DET}

IdWidth == 4         \* {n:04d} and (\d{4}) of the identifier pattern
Year == 2025         \* datetime.now(APP_TZ) year of the commits modelled

Sessions == {"s1", "s2"}
Bodegas == {"Casa", "Bodega"}
Outcomes == {"ok", "rate_limit", "error"}

EmptyDF == << >>     \* pd.DataFrame()
NoEntry == [none |-> TRUE]

(***************************************************************************)
(* Text: a string is a sequence of one-character strings                   *)
(***************************************************************************)
DigitChars == <<"0", "1", "2", "3", "4", "5", "6", "7", "8", "9">>

IsDigit(c) == \E i \in 1..10 : DigitChars[i] = c

DigitVal(c) == (CHOOSE i \in 1..10 : DigitChars[i] = c) - 1

RECURSIVE DecStr(_)
\* str(n) of a non-negative integer
DecStr(n) == IF n < 10 THEN <<DigitChars[n + 1]>>
             ELSE DecStr(n \div 10) \o <<DigitChars[(n % 10) + 1]>>

RECURSIVE ZeroPad(_, _)
\* the :04d of an f-string: pads to a MINIMUM width, never truncates
ZeroPad(ds, w) == IF Len(ds) >= w THEN ds ELSE ZeroPad(<<"0">> \o ds, w)

RECURSIVE IntOf(_)
\* int(s) of a string of decimal digits
IntOf(ds) == IF ds = << >> THEN 0
             ELSE 10 * IntOf(SubSeq(ds, 1, Len(ds) - 1)) + DigitVal(ds[Len(ds)])

RECURSIVE Strip(_)
\* str.strip()
Strip(s) == IF s = << >> THEN s
            ELSE IF s[1] = " " THEN Strip(Tail(s))
            ELSE IF s[Len(s)] = " " THEN Strip(SubSeq(s, 1, Len(s) - 1))
            ELSE s

\* re.compile(r"^P-(\d{4})-(\d{4})$").match(s)
PatMatch(prefix, s) ==
    /\ Len(s) = 3 + 2 * IdWidth
    /\ s[1] = prefix
    /\ s[2] = "-"
    /\ \A i \in 3..(2 + IdWidth) : IsDigit(s[i])
    /\ s[3 + IdWidth] = "-"
    /\ \A i \in (4 + IdWidth)..(3 + 2 * IdWidth) : IsDigit(s[i])

\* m.group(1), m.group(2)
Group1(s) == SubSeq(s, 3, 2 + IdWidth)
Group2(s) == SubSeq(s, 4 + IdWidth, 3 + 2 * IdWidth)

\* f"{prefix}-{year}-{n:04d}"
FormatId(prefix, year, n) ==
    \* n is a value by the time it is formatted
    CHOOSE s \in {<<prefix, "-">> \o DecStr(year) \o <<"-">> \o ZeroPad(DecStr(v), IdWidth) :
                    v \in {n}} : TRUE

RECURSIVE ScanMax_AnyYear(_, _, _, _)
\* a scan that forgets the year test
ScanMax_AnyYear(prefix, ids, year, max_n) ==
    IF ids = << >> THEN max_n
    ELSE LET vid == Strip(Head(ids))
             hit == /\ PatMatch(prefix, vid)
                    /\ IntOf(Group2(vid)) > max_n
         IN ScanMax_AnyYear(prefix, Tail(ids), year,
                            IF hit THEN IntOf(Group2(vid)) ELSE max_n)

RECURSIVE ScanMax(_, _, _, _)
\* the for loop of next_venta_id / next_egreso_id: max_n after the scan
ScanMax(prefix, ids, year, max_n) ==
    IF ids = << >> THEN max_n
    ELSE LET vid == Strip(Head(ids))
             hit == /\ PatMatch(prefix, vid)
                    /\ IntOf(Group1(vid)) = year
                    /\ IntOf(Group2(vid)) > max_n
         IN ScanMax(prefix, Tail(ids), year,
                    IF hit THEN IntOf(Group2(vid)) ELSE max_n)

\* an allocator that returns the maximum itself
next_venta_id_NoStep(df, year) ==
    IF ~df.has THEN FormatId("V", year, 1)
    ELSE FormatId("V", year, ScanMax("V", df.ids, year, 0))

\* A frame seen by the allocator: has = the identifier column is among
\* df.columns, ids = that column as a list of strings
next_venta_id(df, year) ==
    IF ~df.has THEN FormatId("V", year, 1)
    ELSE FormatId("V", year, ScanMax("V", df.ids, year, 0) + 1)

next_egreso_id(df, year) ==
    IF ~df.has THEN FormatId("E", year, 1)
    ELSE FormatId("E", year, ScanMax("E", df.ids, year, 0) + 1)

(***************************************************************************)
(* State                                                                   *)
(***************************************************************************)
VARIABLES
    store,          \* the remote store: sheet name -> rows (whole tables)
    cache,          \* st.cache_data: <<tier, sheet>> -> entry, shared by the sessions
    cart,           \* st.session_state["cart"] per session
    bodega_venta,   \* st.session_state["bodega_venta"] per session
    reset_pending,  \* st.session_state["_reset_sale_pending"] per session
    pc,             \* position of the session's current script run
    sale,           \* form values and totals of the run in which REGISTRAR VENTA was pressed
    latest_inv,     \* latest_inv of the commit (line 1932)
    cab_df,         \* cab_df of the commit (line 1950)
    det_df,         \* det_df of the commit (line 1951)
    venta_id,       \* venta_id of the commit (line 1955)
    wlog,           \* the save_sheet calls issued by the current commit, with their outcomes
    tr,             \* locals of a running transfer
    fallback,       \* history: the sheets whose read in the current commit came back
                    \* empty while the store held rows
    allocated,      \* history: the identifiers allocated, in order
    nCommits, nFaults, nTransfers, nAdds,
    a_col, a_year, a_out,  \* allocator harness: input column, target year, results
    f_in, f_out,           \* totals harness: form values, computed totals and header row
    r_out,                 \* read harness: the last load_raw_sheet call and its result
    p_in, p_out,           \* product harness: the colour catalogue, the creations made
    app_pw, auth           \* password gate: st.secrets["APP_PASSWORD"], the session's
                           \* gate state and what its last run did

storeVars == <<store, cache>>
sessVars == <<cart, bodega_venta, reset_pending, pc, sale, latest_inv, cab_df, det_df,
              venta_id, fallback, wlog, tr>>
histVars == <<allocated, nCommits, nFaults, nTransfers, nAdds>>
allocVars == <<a_col, a_year, a_out>>
finVars == <<f_in, f_out>>
readVars == <<r_out>>
prodVars == <<p_in, p_out>>
authVars == <<app_pw, auth>>
harnessVars == <<allocVars, finVars, readVars, prodVars, authVars>>
vars == <<store, cache, cart, bodega_venta, reset_pending, pc, sale, latest_inv,
          cab_df, det_df, venta_id, fallback, wlog, tr, allocated, nCommits, nFaults,
          nTransfers, nAdds, a_col, a_year, a_out, f_in, f_out, r_out, p_in, p_out,
          app_pw, auth>>

inv == store[SHEET_INVENTARIO]
cab == store[SHEET_VENTAS_CAB]
det == store[SHEET_VENTAS_DET]

Tiers == {45, 180, 600}
CacheKeys == Tiers \X Sheets
ClearedCache == [k \in CacheKeys |-> NoEntry]      \* st.cache_data.clear()

NoId == << >>
NoSale == [none |-> TRUE]
NoTransfer == [none |-> TRUE]

(***************************************************************************)
(* RemoteTable client and tiered cache                                     *)
(***************************************************************************)
\* ttl_s = int(ttl_s or 45): a ttl_s of 0 is falsy and becomes 45
EffTtl(ttl_s) == IF ttl_s = 0 THEN 45 ELSE ttl_s

\* the routing of load_raw_sheet; 0 stands for the direct read
TierOf(ttl_s) ==
    IF EffTtl(ttl_s) <= 0 THEN 0
    ELSE IF EffTtl(ttl_s) <= 60 THEN 45
    ELSE IF EffTtl(ttl_s) <= 300 THEN 180
    ELSE 600

\* _cached_read_45/180/600: a hit returns the entry; a miss contacts the
\* store, catches every exception, and caches what it returns
CachedRead(tier, ws, o) ==
    IF cache[<<tier, ws>>] # NoEntry
    THEN [df |-> cache[<<tier, ws>>].df, cache |-> cache,
          raised |-> FALSE, contacted |-> FALSE, shown |-> "none"]
    ELSE LET df == IF o = "ok" THEN store[ws] ELSE EmptyDF
         IN [df |-> df,
             cache |-> [cache EXCEPT ![<<tier, ws>>] = [df |-> df]],
             raised |-> FALSE, contacted |-> TRUE,
             shown |-> IF o = "ok" THEN "none" ELSE "warning"]

\* a load_raw_sheet whose direct read lets the rate limit through
load_raw_sheet_Raising(ws, ttl_s, o) ==
    IF TierOf(ttl_s) = 0
    THEN [df |-> IF o = "ok" THEN store[ws] ELSE EmptyDF, cache |-> cache,
          raised |-> (o # "ok"), contacted |-> TRUE, shown |-> "none"]
    ELSE CachedRead(TierOf(ttl_s), ws, o)

\* load_raw_sheet(conn, worksheet, ttl_s) when the store call, if one is
\* made, has outcome o
load_raw_sheet(ws, ttl_s, o) ==
    IF TierOf(ttl_s) = 0
    THEN [df |-> IF o = "ok" THEN store[ws] ELSE EmptyDF, cache |-> cache,
          raised |-> (o = "error"), contacted |-> TRUE,
          shown |-> IF o = "rate_limit" THEN "error" ELSE "none"]
    ELSE CachedRead(TierOf(ttl_s), ws, o)

\* save_sheet(conn, worksheet, df): the store after the call
save_sheet(ws, df, o) == IF o = "ok" THEN [store EXCEPT ![ws] = df] ELSE store

\* a save_sheet that clears only the short tier
save_sheet_cache_ShortOnly(o) ==
    IF o = "ok" THEN [c \in CacheKeys |-> IF c[1] = 45 THEN NoEntry ELSE cache[c]]
    ELSE cache

\* save_sheet: the cache after the call (cleared only after an accepted write)
save_sheet_cache(o) == IF o = "ok" THEN ClearedCache ELSE cache

\* a save_sheet that raises on a rate limit too
save_sheet_raises_Any(o) == (o # "ok")

\* save_sheet re-raises everything that is not a rate limit
save_sheet_raises(o) == (o = "error")

\* a store call may fail only while the fault budget lasts
FaultOK(contacted, o) == (o = "ok") \/ (contacted /\ nFaults < MaxFaults)
FaultCount(contacted, o) == IF contacted /\ o # "ok" THEN nFaults + 1 ELSE nFaults

\* the sheets read empty while the store holds rows, after a read of ws gave df
Fell(fs, ws, df) == IF df = EmptyDF /\ store[ws] # << >> THEN fs \cup {ws} ELSE fs

(***************************************************************************)
(* Frames                                                                  *)
(***************************************************************************)
\* load_inventario: aligned columns, numeric stocks and prices, stripped
\* SKU, boolean Activo; an empty read gives the empty aligned frame
load_inventario(raw) ==
    [i \in DOMAIN raw |->
        [SKU |-> raw[i].SKU, Stock_Casa |-> raw[i].Stock_Casa,
         Stock_Bodega |-> raw[i].Stock_Bodega,
         Precio_Lista |-> raw[i].Precio_Lista, Activo |-> raw[i].Activo]]

\* load_cabecera: Venta_ID is stripped, the amounts are numeric
load_cabecera(raw) ==
    [i \in DOMAIN raw |-> [raw[i] EXCEPT !.Venta_ID = Strip(raw[i].Venta_ID)]]

\* load_detalle
load_detalle(raw) ==
    [i \in DOMAIN raw |-> [raw[i] EXCEPT !.Venta_ID = Strip(raw[i].Venta_ID)]]

\* cab_df["Venta_ID"].astype(str).tolist() of an aligned frame
VentaIdColumn(df) == [has |-> TRUE, ids |-> [i \in DOMAIN df |-> df[i].Venta_ID]]

\* inv_df[inv_df["Activo"] == True]
ActiveRows(df) == SelectSeq(df, LAMBDA r : r.Activo)

\* inv_activo of render_ventas_screen: all rows when the filter leaves none
inv_activo(df) == IF ActiveRows(df) = << >> /\ Len(df) > 0 THEN df ELSE ActiveRows(df)

HasSku(df, sku) == \E i \in DOMAIN df : df[i].SKU = sku

\* index of match.iloc[0] / inv_updated.index[mask].tolist()[0]
FirstIdx(df, sku) == CHOOSE i \in DOMAIN df :
                        /\ df[i].SKU = sku
                        /\ \A j \in DOMAIN df : df[j].SKU = sku => i <= j

\* r.get(col_stock, 0) with col_stock chosen by the warehouse
StockOf(row, bodega) == IF bodega = "Casa" THEN row.Stock_Casa ELSE row.Stock_Bodega

AddStock(row, bodega, d) ==
    IF bodega = "Casa" THEN [row EXCEPT !.Stock_Casa = @ + d]
    ELSE [row EXCEPT !.Stock_Bodega = @ + d]

\* fmt_bodega with the default display names
fmt_bodega(b) == IF b = "Casa" THEN "Casa Chiky" ELSE "Gamaliel"

\* a validation pass that forgets the stock test
LineValid_NoStock(item, df, bodega) == HasSku(df, item.SKU)

\* one pass of the validation loop (lines 1935-1948): TRUE when no line raises
LineValid(item, df, bodega) ==
    /\ HasSku(df, item.SKU)
    /\ ~(StockOf(df[FirstIdx(df, item.SKU)], bodega) < item.Cantidad)

CartValid(c, df, bodega) == \A i \in DOMAIN c : LineValid(c[i], df, bodega)

RECURSIVE SumQty(_)
\* the units a cart asks for
SumQty(c) == IF c = << >> THEN 0 ELSE Head(c).Cantidad + SumQty(Tail(c))

\* a decrement that stops after the first cart line
Descontar_HeadOnly(df, c, bodega) ==
    LET ix == FirstIdx(df, Head(c).SKU)
    IN [df EXCEPT ![ix] = AddStock(@, bodega, 0 - Head(c).Cantidad)]

\* a decrement applied to the table the store holds now
Descontar_Stored(df, c, bodega) ==
    [i \in DOMAIN inv |->
        LET q == SumQty(SelectSeq(c, LAMBDA x : x.SKU = inv[i].SKU))
        IN AddStock(inv[i], bodega, 0 - q)]

RECURSIVE Descontar(_, _, _)
\* the decrement loop (lines 2010-2020), one cart line after the other
Descontar(df, c, bodega) ==
    IF c = << >> THEN df
    ELSE LET ix == FirstIdx(df, Head(c).SKU)
         IN Descontar([df EXCEPT ![ix] = AddStock(@, bodega, 0 - Head(c).Cantidad)],
                      Tail(c), bodega)

RECURSIVE SumSubtotals(_)
\* sum(float(x["Subtotal_Linea"]) for x in cart)
SumSubtotals(c) == IF c = << >> THEN 0 ELSE Head(c).Subtotal_Linea + SumSubtotals(Tail(c))

(***************************************************************************)
(* Commission and totals.  Money is in cents, a rate in 1/10000.           *)
(***************************************************************************)
UpperChars == <<"A", "B", "C", "D", "E", "F", "G", "H", "I", "J", "K", "L", "M",
                "N", "O", "P", "Q", "R", "S", "T", "U", "V", "W", "X", "Y", "Z">>
LowerChars == <<"a", "b", "c", "d", "e", "f", "g", "h", "i", "j", "k", "l", "m",
                "n", "o", "p", "q", "r", "s", "t", "u", "v", "w", "x", "y", "z">>

\* str.lower()
Lower(w) ==
    [i \in DOMAIN w |->
        IF \E k \in DOMAIN UpperChars : UpperChars[k] = w[i]
        THEN LowerChars[CHOOSE k \in DOMAIN UpperChars : UpperChars[k] = w[i]]
        ELSE w[i]]

\* the options of the "Método de pago" selectbox (lines 1821-1825)
Transferencia == <<"T", "r", "a", "n", "s", "f", "e", "r", "e", "n", "c", "i", "a">>
Efectivo == <<"E", "f", "e", "c", "t", "i", "v", "o">>
Tarjeta == <<"T", "a", "r", "j", "e", "t", "a">>
ContraEntrega == <<"C", "o", "n", "t", "r", "a", " ", "E", "n", "t", "r", "e", "g", "a">>
MetodosPago == {Transferencia, Efectivo, Tarjeta, ContraEntrega}

\* None, and a dictionary key that is not there
None == [none |-> TRUE]
\* a number held in a cell or typed in a field
Num(n) == [num |-> n]
\* a cell holding no text
Blank == [text |-> << >>]

\* _clean_number: None and empty text give 0, a number gives itself
clean_number(x) == IF "num" \in DOMAIN x THEN x.num ELSE 0

\* cfg.get(key, default)
cfg_get(cfg, key, default) == IF cfg[key] = None THEN default ELSE cfg[key]

DefaultTarjeta == 230      \* 0.023
DefaultPce == 299          \* 0.0299

\* a percentage that is the card rate whatever the method
comision_porcentaje_CardAlways(metodo_pago, cfg, override_pce) ==
    clean_number(cfg_get(cfg, "COMISION_TARJETA_PORC", Num(DefaultTarjeta)))

\* comision_porcentaje (lines 642-651)
comision_porcentaje(metodo_pago, cfg, override_pce) ==
    LET m == Lower(Strip(metodo_pago))
        tarjeta == clean_number(cfg_get(cfg, "COMISION_TARJETA_PORC", Num(DefaultTarjeta)))
        pce == clean_number(cfg_get(cfg, "COMISION_PCE_PORC", Num(DefaultPce)))
    IN IF m = Lower(Tarjeta) THEN tarjeta
       ELSE IF m = Lower(ContraEntrega)
            THEN (IF override_pce # None THEN override_pce.num ELSE pce)
       ELSE 0

\* override_pce as the form builds it (lines 1843-1857): p / 100 only for
\* "Contra Entrega" with the radio on "Otro"
OverrideOf(metodo_pago, pce_mode, p) ==
    IF metodo_pago = ContraEntrega /\ pce_mode = "Otro" THEN Num(p) ELSE None

\* desc_u capped at the price, subtotal_linea (lines 1754-1758)
desc_u(precio_unit, desc_in) == IF desc_in > precio_unit THEN precio_unit ELSE desc_in
subtotal_linea(precio_unit, desc_in, qty) == (precio_unit - desc_u(precio_unit, desc_in)) * qty

\* total_lineas (line 1860)
total_lineas(c) == IF c # << >> THEN SumSubtotals(c) ELSE 0

\* a total that leaves the shipping out
total_cobrado_NoEnvio(c, envio_cliente) == total_lineas(c)

\* total_cobrado (line 1861)
total_cobrado(c, envio_cliente) == total_lineas(c) + envio_cliente

\* the products total * rate that lie exactly on a half cent in decimal and
\* whose binary floating point product lies below it: round(_, 2) takes the
\* lower cent for these and the upper cent for every other half cent
HalfCentBelow == {<<2500, 230>>, <<4500, 230>>, <<5500, 230>>, <<7500, 230>>,
                  <<13500, 230>>, <<16500, 230>>, <<22500, 230>>, <<5000, 299>>}

\* com_monto = round(total_cobrado * float(com_porc), 2) (line 1864)
com_monto(total, com_porc) ==
    LET x == total * com_porc
        q == x \div 10000
        r == x % 10000
    IN IF r < 5000 THEN q
       ELSE IF r > 5000 THEN q + 1
       ELSE IF <<total, com_porc>> \in HalfCentBelow THEN q ELSE q + 1

\* a net amount that leaves the commission out
monto_a_recibir_NoComision(total, costo_courier, com) == total - costo_courier

\* monto_a_recibir (line 1866)
monto_a_recibir(total, costo_courier, com) == total - costo_courier - com

\* the totals block (lines 1860-1866)
Totales(c, envio_cliente, costo_courier, metodo_pago, cfg, override_pce) ==
    LET tl == total_lineas(c)
        tc == total_cobrado(c, envio_cliente)
        cp == comision_porcentaje(metodo_pago, cfg, override_pce)
        cm == com_monto(tc, cp)
    IN [envio_cliente |-> envio_cliente, costo_courier |-> costo_courier,
        metodo_pago |-> metodo_pago,
        total_lineas |-> tl, total_cobrado |-> tc, com_porc |-> cp, com_monto |-> cm,
        monto_a_recibir |-> monto_a_recibir(tc, costo_courier, cm)]

\* a header row whose total is the total of the lines
CabRow_TotalLineas(vid, sl) ==
    [Venta_ID |-> vid, Cliente |-> sl.cliente,
     Metodo_Pago |-> sl.metodo_pago,
     Envio_Cobrado_Total |-> sl.envio_cliente,
     Costo_Logistica_Total |-> sl.costo_courier,
     Comision_Porc |-> sl.com_porc,
     Total_Lineas |-> sl.total_lineas, Total_Cobrado |-> sl.total_lineas,
     Comision_Monto |-> sl.com_monto,
     Monto_A_Recibir |-> sl.monto_a_recibir]

\* cab_row (lines 1960-1975)
CabRow(vid, sl) ==
    [Venta_ID |-> vid, Cliente |-> sl.cliente,
     Metodo_Pago |-> sl.metodo_pago,
     Envio_Cobrado_Total |-> sl.envio_cliente,
     Costo_Logistica_Total |-> sl.costo_courier,
     Comision_Porc |-> sl.com_porc,
     Total_Lineas |-> sl.total_lineas, Total_Cobrado |-> sl.total_cobrado,
     Comision_Monto |-> sl.com_monto,
     Monto_A_Recibir |-> sl.monto_a_recibir]

\* detail rows labelled with the warehouse each line was added under
DetRows_LineBodega(vid, c, bodega) ==
    [i \in DOMAIN c |->
        [Venta_ID |-> vid, Linea |-> i, SKU |-> c[i].SKU,
         Bodega_Salida |-> fmt_bodega(c[i].Bodega_Salida), Cantidad |-> c[i].Cantidad,
         Subtotal_Linea |-> c[i].Subtotal_Linea]]

\* detail rows numbered from 0
DetRows_FromZero(vid, c, bodega) ==
    [i \in DOMAIN c |->
        [Venta_ID |-> vid, Linea |-> i - 1, SKU |-> c[i].SKU,
         Bodega_Salida |-> fmt_bodega(bodega), Cantidad |-> c[i].Cantidad,
         Subtotal_Linea |-> c[i].Subtotal_Linea]]

\* det_rows (lines 1977-1995)
DetRows(vid, c, bodega) ==
    [i \in DOMAIN c |->
        [Venta_ID |-> vid, Linea |-> i, SKU |-> c[i].SKU,
         Bodega_Salida |-> fmt_bodega(bodega), Cantidad |-> c[i].Cantidad,
         Subtotal_Linea |-> c[i].Subtotal_Linea]]

(***************************************************************************)
(* Initial state                                                           *)
(***************************************************************************)
SKUs == {"A", "B"}
PrecioDe(sku) == IF sku = "A" THEN 2000 ELSE 500      \* Precio_Lista, cents
Clientes == {<< >>, <<" ">>, <<"A", "n", "a">>}        \* text typed as Cliente
Descuentos == {0, 9900}                                \* desc_u typed, cents
Envios == {0, 300}                                     \* envio_cliente, cents
\* the shipping each session charges: pickup sales in one, deliveries in the other
EnviosDe(s) == IF s = "s1" THEN {0} ELSE Envios \ {0}
Costos == {0}                                          \* costo_courier, cents
MetodosVenta == {Transferencia}                        \* metodo_pago chosen
\* load_config on a Config sheet without rows (line 430)
EmptyCfg == [COMISION_TARJETA_PORC |-> None, COMISION_PCE_PORC |-> None]

InvRow(sku, casa, bodega, activo) ==
    [SKU |-> sku, Stock_Casa |-> casa, Stock_Bodega |-> bodega,
     Precio_Lista |-> PrecioDe(sku), Activo |-> activo]

\* the last four-digit suffix
LastSuffix == IntOf([i \in 1..IdWidth |-> "9"])

\* a ledger whose newest sale of the year carries the last four-digit suffix
HighCab == <<[Venta_ID |-> FormatId("V", Year, LastSuffix), Cliente |-> <<"A", "n", "a">>,
              Metodo_Pago |-> Transferencia,
              Envio_Cobrado_Total |-> 0, Costo_Logistica_Total |-> 0, Comision_Porc |-> 0,
              Total_Lineas |-> PrecioDe("A"), Total_Cobrado |-> PrecioDe("A"),
              Comision_Monto |-> 0, Monto_A_Recibir |-> PrecioDe("A")]>>
HighDet == <<[Venta_ID |-> FormatId("V", Year, LastSuffix), Linea |-> 1, SKU |-> "A",
              Bodega_Salida |-> fmt_bodega("Casa"), Cantidad |-> 1,
              Subtotal_Linea |-> PrecioDe("A")]>>

AllocIdle ==
    /\ a_col = [has |-> TRUE, ids |-> << >>, cells |-> << >>]
    /\ a_year = Year
    /\ a_out = [v |-> NoId, e |-> NoId, v2 |-> NoId, e2 |-> NoId]

NoFin == [none |-> TRUE]
NoRead == [none |-> TRUE]

FinIdle == f_in = NoFin /\ f_out = NoFin
ReadIdle == r_out = [n |-> 0, last |-> NoRead]
NoProd == [none |-> TRUE]
ProdIdle == p_in = NoProd /\ p_out = [n |-> 0, last |-> NoProd]

\* no APP_PASSWORD and an empty session state
NoPw == << >>
NoAuth == [pw_fp |-> [none |-> TRUE], auth_ok |-> FALSE, under |-> << >>,
           shown |-> "none", rerun |-> FALSE, n |-> 0, passed |-> FALSE]
AuthIdle == app_pw = NoPw /\ auth = NoAuth

SessionsIdle ==
    /\ cart = [s \in Sessions |-> << >>]
    /\ bodega_venta = [s \in Sessions |-> "Casa"]
    /\ reset_pending = [s \in Sessions |-> FALSE]
    /\ pc = [s \in Sessions |-> "idle"]
    /\ sale = [s \in Sessions |-> NoSale]
    /\ latest_inv = [s \in Sessions |-> EmptyDF]
    /\ cab_df = [s \in Sessions |-> EmptyDF]
    /\ det_df = [s \in Sessions |-> EmptyDF]
    /\ venta_id = [s \in Sessions |-> NoId]
    /\ wlog = [s \in Sessions |-> << >>]
    /\ fallback = [s \in Sessions |-> {}]
    /\ tr = [s \in Sessions |-> NoTransfer]
    /\ nCommits = 0
    /\ nFaults = 0
    /\ nTransfers = 0
    /\ nAdds = 0

Init ==
    /\ \E high \in BOOLEAN :
          store = [ws \in Sheets |->
                     IF ws = SHEET_INVENTARIO
                     THEN <<InvRow("A", MaxStock, 0, TRUE), InvRow("B", 1, 0, FALSE)>>
                     ELSE IF ws = SHEET_VENTAS_CAB
                     THEN (IF high THEN HighCab ELSE << >>)
                     ELSE (IF high THEN HighDet ELSE << >>)]
    /\ allocated = [i \in DOMAIN cab |-> cab[i].Venta_ID]
    /\ cache = ClearedCache
    /\ SessionsIdle
    /\ AllocIdle
    /\ FinIdle
    /\ ReadIdle
    /\ ProdIdle
    /\ AuthIdle

(***************************************************************************)
(* Script runs that only read                                              *)
(***************************************************************************)
\* inv_df_full = load_inventario(conn, ttl_s=45) at the top of every run
RunTop(o) == load_raw_sheet(SHEET_INVENTARIO, 45, o)

\* the screen renders: inventory not empty (line 1685), inv_activo not empty (1695)
Renders(df) == df # << >> /\ inv_activo(df) # << >>

\* A run of any screen that changes no session state: the read at the top
\* of the script (line 745) goes through the cache
ViewScreen(o) ==
    LET r == RunTop(o)
    IN /\ r.contacted
       /\ FaultOK(r.contacted, o)
       /\ cache' = r.cache
       /\ nFaults' = FaultCount(r.contacted, o)
       /\ UNCHANGED <<store, sessVars, allocated, nCommits, nTransfers, nAdds, harnessVars>>

\* an expiry that spares the entries holding an empty table
Expire_KeepEmpty(k) ==
    /\ cache[k] # NoEntry
    /\ cache[k].df # EmptyDF
    /\ cache' = [cache EXCEPT ![k] = NoEntry]
    /\ UNCHANGED <<store, sessVars, histVars, harnessVars>>

\* a cache entry reaches its TTL
Expire(k) ==
    /\ cache[k] # NoEntry
    /\ cache' = [cache EXCEPT ![k] = NoEntry]
    /\ UNCHANGED <<store, sessVars, histVars, harnessVars>>

(***************************************************************************)
(* Cart                                                                    *)
(***************************************************************************)
\* a quantity field that goes one past the stock shown
Cantidades_OnePast(stock_disp) == 1..(stock_disp + 1)

\* the values of the "Cantidad" field (line 1750)
Cantidades(stock_disp) == 1..(IF stock_disp > 1 THEN stock_disp ELSE 1)

\* "Añadir al carrito" (lines 1734-1784)
AddLine(s, sku, desc_in) ==
    LET r == RunTop("ok")
        df == load_inventario(r.df)
        act == inv_activo(df)
    IN /\ pc[s] = "idle"
       /\ nAdds < MaxAdds
       /\ Renders(df)
       /\ HasSku(act, sku)
       /\ LET row == act[FirstIdx(act, sku)]
              precio_unit == row.Precio_Lista
              stock_disp == StockOf(row, bodega_venta[s])
          IN /\ ~(stock_disp <= 0)
             /\ \E qty \in Cantidades(stock_disp) :
                   cart' = [cart EXCEPT ![s] = Append(@,
                              [SKU |-> sku, Bodega_Salida |-> bodega_venta[s],
                               Cantidad |-> qty,
                               Subtotal_Linea |-> subtotal_linea(precio_unit, desc_in, qty)])]
       /\ cache' = r.cache
       /\ nAdds' = nAdds + 1
       /\ UNCHANGED <<store, bodega_venta, reset_pending, pc, sale, latest_inv,
                      cab_df, det_df, venta_id, fallback, wlog, tr, allocated, nCommits,
                      nFaults, nTransfers, harnessVars>>

\* the warehouse radio (lines 1702-1708)
SetBodega(s, b) ==
    LET r == RunTop("ok")
    IN /\ pc[s] = "idle"
       /\ Renders(load_inventario(r.df))
       /\ b # bodega_venta[s]
       /\ bodega_venta' = [bodega_venta EXCEPT ![s] = b]
       /\ cache' = r.cache
       /\ UNCHANGED <<store, cart, reset_pending, pc, sale, latest_inv,
                      cab_df, det_df, venta_id, fallback, wlog, tr, histVars, harnessVars>>

(***************************************************************************)
(* Sale commit (render_ventas_screen, lines 1911-2033)                     *)
(***************************************************************************)
\* an order in which the stock write follows the header write directly
NextStep_SkipDetail(step) ==
    IF step = "WritingHeader" THEN "DecrementingStock" ELSE "Done"

\* the statement order of the three writes (lines 1997-2022)
NextStep(step) ==
    IF step = "WritingHeader" THEN "WritingDetail"
    ELSE IF step = "WritingDetail" THEN "DecrementingStock"
    ELSE "Done"

\* a write that is issued again after it raised
AfterWrite_Retry(o, step) == IF save_sheet_raises(o) THEN step ELSE NextStep(step)

\* where the run goes after a save_sheet call of the commit: an exception
\* of save_sheet lands in the except handler
AfterWrite(o, step) == IF save_sheet_raises(o) THEN "Aborted" ELSE NextStep(step)

\* an except handler that takes the header row of the attempt back
ExceptHandler_Rollback(st, vid) ==
    [st EXCEPT ![SHEET_VENTAS_CAB] = SelectSeq(@, LAMBDA r : r.Venta_ID # vid)]

\* the except handler (lines 2031-2033): st.error and st.exception, the
\* store is left as it is
ExceptHandler(st, vid) == st

\* one save_sheet call of the commit of session s
CommitWrite(s, ws, df, o, step) ==
    /\ FaultOK(TRUE, o)
    /\ store' = IF save_sheet_raises(o)
                THEN ExceptHandler(save_sheet(ws, df, o), venta_id[s])
                ELSE save_sheet(ws, df, o)
    /\ wlog' = [wlog EXCEPT ![s] = Append(@, [sheet |-> ws, outcome |-> o])]
    /\ pc' = [pc EXCEPT ![s] = AfterWrite(o, step)]
    /\ nFaults' = FaultCount(TRUE, o)

\* a button that a non-positive total leaves enabled
can_save_AnyTotal(c, cliente, total) == c # << >> /\ Strip(cliente) # << >>

\* can_save (lines 1911-1926): the button is disabled unless it holds
can_save(c, cliente, total) ==
    /\ c # << >>
    /\ Strip(cliente) # << >>
    /\ ~(total <= 0)

\* REGISTRAR VENTA pressed: the run up to "if save_btn" (lines 1860-1929)
StartCommit(s, cliente, envio_cliente, costo_courier, metodo_pago) ==
    LET r == RunTop("ok")
        tot == Totales(cart[s], envio_cliente, costo_courier, metodo_pago, EmptyCfg,
                       OverrideOf(metodo_pago, "2.99%", 0))
    IN /\ pc[s] = "idle"
       /\ nCommits < MaxCommits
       /\ Renders(load_inventario(r.df))
       /\ can_save(cart[s], cliente, tot.total_cobrado)
       /\ pc' = [pc EXCEPT ![s] = "Validating"]
       /\ sale' = [sale EXCEPT ![s] = [cliente |-> Strip(cliente)] @@ tot]
       /\ cache' = r.cache
       /\ nCommits' = nCommits + 1
       /\ UNCHANGED <<store, cart, bodega_venta, reset_pending, latest_inv, cab_df,
                      det_df, venta_id, fallback, wlog, tr, allocated, nFaults, nTransfers,
                      nAdds, harnessVars>>

\* latest_inv = load_inventario(conn, ttl_s=0) and the validation loop
Validate(s, o) ==
    LET r == load_raw_sheet(SHEET_INVENTARIO, 0, o)
        snap == load_inventario(r.df)
    IN /\ pc[s] = "Validating"
       /\ FaultOK(r.contacted, o)
       /\ latest_inv' = [latest_inv EXCEPT ![s] = IF r.raised THEN @ ELSE snap]
       /\ pc' = [pc EXCEPT ![s] =
                   IF r.raised \/ ~CartValid(cart[s], snap, bodega_venta[s])
                   THEN "Aborted" ELSE "AllocatingID"]
       /\ cache' = r.cache
       /\ nFaults' = FaultCount(r.contacted, o)
       /\ fallback' = [fallback EXCEPT ![s] = Fell(@, SHEET_INVENTARIO, r.df)]
       /\ UNCHANGED <<store, cart, bodega_venta, reset_pending, sale, cab_df, det_df,
                      venta_id, wlog, tr, allocated, nCommits, nTransfers, nAdds, harnessVars>>

\* cab_df = load_cabecera(conn, ttl_s=0)
ReadCabecera(s, o) ==
    LET r == load_raw_sheet(SHEET_VENTAS_CAB, 0, o)
    IN /\ pc[s] = "AllocatingID"
       /\ FaultOK(r.contacted, o)
       /\ cab_df' = [cab_df EXCEPT ![s] = IF r.raised THEN @ ELSE load_cabecera(r.df)]
       /\ pc' = [pc EXCEPT ![s] = IF r.raised THEN "Aborted" ELSE "AllocatingID_det"]
       /\ cache' = r.cache
       /\ nFaults' = FaultCount(r.contacted, o)
       /\ fallback' = [fallback EXCEPT ![s] = Fell(@, SHEET_VENTAS_CAB, r.df)]
       /\ UNCHANGED <<store, cart, bodega_venta, reset_pending, sale, latest_inv, det_df,
                      venta_id, wlog, tr, allocated, nCommits, nTransfers, nAdds, harnessVars>>

\* a header frame taken from the store at the moment of the allocation
AllocSource_Stored(s) == load_cabecera(cab)

\* the frame passed to next_venta_id (line 1955): the snapshot of line 1950
AllocSource(s) == cab_df[s]

\* det_df = load_detalle(conn, ttl_s=0); venta_id = next_venta_id(cab_df, year)
ReadDetalle(s, o) ==
    LET r == load_raw_sheet(SHEET_VENTAS_DET, 0, o)
        vid == next_venta_id(VentaIdColumn(AllocSource(s)), Year)
    IN /\ pc[s] = "AllocatingID_det"
       /\ FaultOK(r.contacted, o)
       /\ det_df' = [det_df EXCEPT ![s] = IF r.raised THEN @ ELSE load_detalle(r.df)]
       /\ venta_id' = [venta_id EXCEPT ![s] = IF r.raised THEN @ ELSE vid]
       /\ allocated' = IF r.raised THEN allocated ELSE Append(allocated, vid)
       /\ pc' = [pc EXCEPT ![s] = IF r.raised THEN "Aborted" ELSE "WritingHeader"]
       /\ cache' = r.cache
       /\ nFaults' = FaultCount(r.contacted, o)
       /\ fallback' = [fallback EXCEPT ![s] = Fell(@, SHEET_VENTAS_DET, r.df)]
       /\ UNCHANGED <<store, cart, bodega_venta, reset_pending, sale, latest_inv, cab_df,
                      wlog, tr, nCommits, nTransfers, nAdds, harnessVars>>

\* 1) Cabecera (lines 1997-2001)
WriteHeader(s, o) ==
    /\ pc[s] = "WritingHeader"
    /\ CommitWrite(s, SHEET_VENTAS_CAB,
                   cab_df[s] \o <<CabRow(venta_id[s], sale[s])>>, o, "WritingHeader")
    /\ cache' = save_sheet_cache(o)
    /\ UNCHANGED <<cart, bodega_venta, reset_pending, sale, latest_inv, cab_df, det_df,
                   venta_id, fallback, tr, allocated, nCommits, nTransfers, nAdds, harnessVars>>

\* 2) Detalle (lines 2003-2007)
WriteDetail(s, o) ==
    /\ pc[s] = "WritingDetail"
    /\ CommitWrite(s, SHEET_VENTAS_DET,
                   det_df[s] \o DetRows(venta_id[s], cart[s], bodega_venta[s]), o,
                   "WritingDetail")
    /\ cache' = save_sheet_cache(o)
    /\ UNCHANGED <<cart, bodega_venta, reset_pending, sale, latest_inv, cab_df, det_df,
                   venta_id, fallback, tr, allocated, nCommits, nTransfers, nAdds, harnessVars>>

\* 3) Descontar stock, success message, cache clear, reset flag, rerun
\* (lines 2009-2029)
WriteStock(s, o) ==
    /\ pc[s] = "DecrementingStock"
    /\ IF \E i \in DOMAIN cart[s] : ~HasSku(latest_inv[s], cart[s][i].SKU)
       THEN \* raise ValueError("SKU no encontrado al descontar")
            /\ o = "ok"
            /\ pc' = [pc EXCEPT ![s] = "Aborted"]
            /\ UNCHANGED <<store, cache, wlog, nFaults, reset_pending>>
       ELSE /\ CommitWrite(s, SHEET_INVENTARIO,
                           Descontar(latest_inv[s], cart[s], bodega_venta[s]), o,
                           "DecrementingStock")
            /\ cache' = IF save_sheet_raises(o) THEN cache ELSE ClearedCache
            /\ reset_pending' = [reset_pending EXCEPT ![s] = ~save_sheet_raises(o)]
    /\ UNCHANGED <<cart, bodega_venta, sale, latest_inv, cab_df, det_df,
                   venta_id, fallback, tr, allocated, nCommits, nTransfers, nAdds, harnessVars>>

\* a reset that leaves the cart as it is
reset_sale_form_KeepCart(ss) == [cart |-> ss.cart, bodega_venta |-> "Casa"]

\* reset_sale_form (lines 673-682) on the cart and the form of a session
reset_sale_form(ss) == [cart |-> << >>, bodega_venta |-> "Casa"]

\* the run started by st.rerun(): the pending reset (lines 697-700), then
\* the top of the script
Rerun(s, o) ==
    LET r == RunTop(o)
    IN /\ pc[s] = "Done"
       /\ FaultOK(r.contacted, o)
       /\ reset_pending' = [reset_pending EXCEPT ![s] = FALSE]
       /\ cart' = [cart EXCEPT ![s] =
                     IF reset_pending[s]
                     THEN reset_sale_form([cart |-> cart[s],
                                           bodega_venta |-> bodega_venta[s]]).cart
                     ELSE @]
       /\ bodega_venta' = [bodega_venta EXCEPT ![s] =
                             IF reset_pending[s]
                             THEN reset_sale_form([cart |-> cart[s],
                                                   bodega_venta |-> bodega_venta[s]]).bodega_venta
                             ELSE @]
       /\ pc' = [pc EXCEPT ![s] = "idle"]
       /\ sale' = [sale EXCEPT ![s] = NoSale]
       /\ latest_inv' = [latest_inv EXCEPT ![s] = EmptyDF]
       /\ cab_df' = [cab_df EXCEPT ![s] = EmptyDF]
       /\ det_df' = [det_df EXCEPT ![s] = EmptyDF]
       /\ venta_id' = [venta_id EXCEPT ![s] = NoId]
       /\ wlog' = [wlog EXCEPT ![s] = << >>]
       /\ fallback' = [fallback EXCEPT ![s] = {}]
       /\ cache' = r.cache
       /\ nFaults' = FaultCount(r.contacted, o)
       /\ UNCHANGED <<store, tr, allocated, nCommits, nTransfers, nAdds, harnessVars>>

\* the run that ended in the except handler is over; its locals are gone
EndRun(s) ==
    /\ pc[s] = "Aborted"
    /\ pc' = [pc EXCEPT ![s] = "idle"]
    /\ sale' = [sale EXCEPT ![s] = NoSale]
    /\ latest_inv' = [latest_inv EXCEPT ![s] = EmptyDF]
    /\ cab_df' = [cab_df EXCEPT ![s] = EmptyDF]
    /\ det_df' = [det_df EXCEPT ![s] = EmptyDF]
    /\ venta_id' = [venta_id EXCEPT ![s] = NoId]
    /\ wlog' = [wlog EXCEPT ![s] = << >>]
    /\ fallback' = [fallback EXCEPT ![s] = {}]
    /\ UNCHANGED <<storeVars, cart, bodega_venta, reset_pending, tr, histVars, harnessVars>>

(***************************************************************************)
(* Transfer (render_inventario_screen, lines 1134-1215)                    *)
(***************************************************************************)
\* _can_move() (lines 1178-1185); dir names the source warehouse
can_move(row, dir, qty) == ~(qty > StockOf(row, dir))

Otra(b) == IF b = "Casa" THEN "Bodega" ELSE "Casa"

\* lines 1204-1209: the source column loses qty, the other one gains it
Mover(df, i0, dir, qty) ==
    [df EXCEPT ![i0] = AddStock(AddStock(@, dir, 0 - qty), Otra(dir), qty)]

\* "Transferir" pressed: the run up to st.cache_data.clear() (line 1193)
TransferClick(s, sku, dir) ==
    LET r == RunTop("ok")
        inv_latest == ActiveRows(load_inventario(r.df))
    IN /\ pc[s] = "idle"
       /\ nTransfers < MaxTransfers
       /\ inv_latest # << >>
       /\ HasSku(inv_latest, sku)
       /\ \E qty \in 1..(MaxStock + 1) :
             /\ can_move(inv_latest[FirstIdx(inv_latest, sku)], dir, qty)
             /\ tr' = [tr EXCEPT ![s] = [sku |-> sku, dir |-> dir, qty |-> qty,
                                         out |-> EmptyDF]]
       /\ pc' = [pc EXCEPT ![s] = "TransferRead"]
       /\ cache' = ClearedCache
       /\ nTransfers' = nTransfers + 1
       /\ UNCHANGED <<store, cart, bodega_venta, reset_pending, sale, latest_inv, cab_df,
                      det_df, venta_id, fallback, wlog, allocated, nCommits, nFaults, nAdds, harnessVars>>

\* inv_fresh = load_inventario(conn, ttl_s=45), the Activo filter, the SKU
\* lookup and the two column updates (lines 1194-1209)
TransferRead(s, o) ==
    LET r == load_raw_sheet(SHEET_INVENTARIO, 45, o)
        inv_fresh == ActiveRows(load_inventario(r.df))
    IN /\ pc[s] = "TransferRead"
       /\ FaultOK(r.contacted, o)
       /\ IF ~HasSku(inv_fresh, tr[s].sku)
          THEN \* st.error("SKU no encontrado ..."); st.stop()
               /\ pc' = [pc EXCEPT ![s] = "idle"]
               /\ tr' = [tr EXCEPT ![s] = NoTransfer]
          ELSE /\ pc' = [pc EXCEPT ![s] = "TransferWrite"]
               /\ tr' = [tr EXCEPT ![s].out =
                           Mover(inv_fresh, FirstIdx(inv_fresh, tr[s].sku),
                                 tr[s].dir, tr[s].qty)]
       /\ cache' = r.cache
       /\ nFaults' = FaultCount(r.contacted, o)
       /\ UNCHANGED <<store, cart, bodega_venta, reset_pending, sale, latest_inv, cab_df,
                      det_df, venta_id, fallback, wlog, allocated, nCommits, nTransfers, nAdds, harnessVars>>

\* save_sheet(conn, SHEET_INVENTARIO, inv_fresh), then the success message,
\* the cache clear and the rerun (lines 1211-1215)
TransferWrite(s, o) ==
    /\ pc[s] = "TransferWrite"
    /\ FaultOK(TRUE, o)
    /\ store' = save_sheet(SHEET_INVENTARIO, tr[s].out, o)
    /\ cache' = IF save_sheet_raises(o) THEN cache ELSE ClearedCache
    /\ pc' = [pc EXCEPT ![s] = "idle"]
    /\ tr' = [tr EXCEPT ![s] = NoTransfer]
    /\ nFaults' = FaultCount(TRUE, o)
    /\ UNCHANGED <<cart, bodega_venta, reset_pending, sale, latest_inv, cab_df,
                   det_df, venta_id, fallback, wlog, allocated, nCommits, nTransfers, nAdds, harnessVars>>

(***************************************************************************)
(* Specification of the store, the cache and the sessions                  *)
(***************************************************************************)
Next ==
    \/ \E o \in Outcomes : ViewScreen(o)
    \/ \E k \in CacheKeys : Expire(k)
    \/ \E s \in Sessions, sku \in SKUs, d \in Descuentos : AddLine(s, sku, d)
    \/ \E s \in Sessions, b \in Bodegas : SetBodega(s, b)
    \/ \E s \in Sessions : \E c \in Clientes, e \in EnviosDe(s), k \in Costos, m \in MetodosVenta :
          StartCommit(s, c, e, k, m)
    \/ \E s \in Sessions, o \in Outcomes : Validate(s, o)
    \/ \E s \in Sessions, o \in Outcomes : ReadCabecera(s, o)
    \/ \E s \in Sessions, o \in Outcomes : ReadDetalle(s, o)
    \/ \E s \in Sessions, o \in Outcomes : WriteHeader(s, o)
    \/ \E s \in Sessions, o \in Outcomes : WriteDetail(s, o)
    \/ \E s \in Sessions, o \in Outcomes : WriteStock(s, o)
    \/ \E s \in Sessions, o \in Outcomes : Rerun(s, o)
    \/ \E s \in Sessions : EndRun(s)
    \/ \E s \in Sessions, sku \in SKUs, dir \in Bodegas : TransferClick(s, sku, dir)
    \/ \E s \in Sessions, o \in Outcomes : TransferRead(s, o)
    \/ \E s \in Sessions, o \in Outcomes : TransferWrite(s, o)

Spec == Init /\ [][Next]_vars

\* the next statement of the commit of session s
CommitStep(s) ==
    \E o \in Outcomes :
       \/ Validate(s, o) \/ ReadCabecera(s, o) \/ ReadDetalle(s, o)
       \/ WriteHeader(s, o) \/ WriteDetail(s, o) \/ WriteStock(s, o)

\* the sales screen alone: lines are added, the button is pressed, the run
\* goes through its statements and the form comes back
NextLive ==
    \/ \E s \in Sessions, sku \in SKUs, d \in Descuentos : AddLine(s, sku, d)
    \/ \E s \in Sessions : \E c \in Clientes, e \in EnviosDe(s), k \in Costos, m \in MetodosVenta :
          StartCommit(s, c, e, k, m)
    \/ \E s \in Sessions : CommitStep(s)
    \/ \E s \in Sessions, o \in Outcomes : Rerun(s, o)
    \/ \E s \in Sessions : EndRun(s)

\* a script run that has started goes on to its next statement
SpecLive == Init /\ [][NextLive]_vars /\ \A s \in Sessions : WF_vars(CommitStep(s))

(***************************************************************************)
(* Allocator harness: next_venta_id and next_egreso_id on arbitrary tables *)
(***************************************************************************)
\* identifier cells with what they are: ok = well formed for prefix pre,
\* y = its year, n = its numeric suffix
IdCells == {
    [s |-> <<"V", "-", "2", "0", "2", "5", "-", "0", "0", "0", "1">>, ok |-> TRUE, pre |-> "V", y |-> 2025, n |-> 1],
    [s |-> <<"V", "-", "2", "0", "2", "5", "-", "0", "0", "0", "7">>, ok |-> TRUE, pre |-> "V", y |-> 2025, n |-> 7],
    [s |-> <<"V", "-", "2", "0", "2", "4", "-", "0", "0", "0", "9">>, ok |-> TRUE, pre |-> "V", y |-> 2024, n |-> 9],
    [s |-> <<"V", "-", "2", "0", "2", "5", "-", "9", "9", "9", "9">>, ok |-> TRUE, pre |-> "V", y |-> 2025, n |-> 9999],
    [s |-> <<" ", "V", "-", "2", "0", "2", "5", "-", "0", "0", "0", "3", " ">>, ok |-> TRUE, pre |-> "V", y |-> 2025, n |-> 3],
    [s |-> <<"V", "-", "2", "0", "2", "5", "-", "0", "1", "2">>, ok |-> FALSE, pre |-> "V", y |-> 2025, n |-> 12],
    [s |-> <<"V", "-", "2", "0", "2", "5", "-", "1", "0", "0", "0", "0">>, ok |-> FALSE, pre |-> "V", y |-> 2025, n |-> 10000],
    [s |-> <<"v", "-", "2", "0", "2", "5", "-", "0", "0", "0", "8">>, ok |-> FALSE, pre |-> "V", y |-> 2025, n |-> 8],
    [s |-> <<"E", "-", "2", "0", "2", "5", "-", "0", "0", "0", "5">>, ok |-> TRUE, pre |-> "E", y |-> 2025, n |-> 5],
    [s |-> <<"E", "-", "2", "0", "2", "4", "-", "0", "0", "1", "1">>, ok |-> TRUE, pre |-> "E", y |-> 2024, n |-> 11],
    [s |-> << >>, ok |-> FALSE, pre |-> "V", y |-> 0, n |-> 0] }

AllocYears == {2024, 2025}

RECURSIVE CellTables(_)
\* the tables of at most k cells
CellTables(k) ==
    IF k = 0 THEN {<< >>}
    ELSE CellTables(k - 1) \cup
         {Append(t, c) : t \in {u \in CellTables(k - 1) : Len(u) = k - 1}, c \in IdCells}

InitAlloc ==
    /\ \E t \in CellTables(MaxTable) :
          \/ a_col = [has |-> TRUE, ids |-> [i \in DOMAIN t |-> t[i].s], cells |-> t]
          \/ t = << >> /\ a_col = [has |-> FALSE, ids |-> << >>, cells |-> << >>]
    /\ a_year \in AllocYears
    /\ a_out = [v |-> NoId, e |-> NoId, v2 |-> NoId, e2 |-> NoId]
    /\ store = [ws \in Sheets |-> << >>]
    /\ allocated = << >>
    /\ cache = ClearedCache
    /\ SessionsIdle
    /\ FinIdle
    /\ ReadIdle
    /\ ProdIdle
    /\ AuthIdle

AllocVenta ==
    /\ a_out.v = NoId
    /\ a_out' = [a_out EXCEPT !.v = next_venta_id(a_col, a_year)]
    /\ UNCHANGED <<storeVars, sessVars, histVars, a_col, a_year, finVars, readVars, prodVars, authVars>>

AllocEgreso ==
    /\ a_out.e = NoId
    /\ a_out' = [a_out EXCEPT !.e = next_egreso_id(a_col, a_year)]
    /\ UNCHANGED <<storeVars, sessVars, histVars, a_col, a_year, finVars, readVars, prodVars, authVars>>

\* the column after the returned identifier was appended to the table
ColumnWith(col, id) == [has |-> TRUE, ids |-> Append(col.ids, id)]

\* the returned identifier is stored and the allocator is called again for
\* the same year
AllocVentaAgain ==
    /\ a_out.v # NoId
    /\ a_out.v2 = NoId
    /\ a_out' = [a_out EXCEPT !.v2 = next_venta_id(ColumnWith(a_col, a_out.v), a_year)]
    /\ UNCHANGED <<storeVars, sessVars, histVars, a_col, a_year, finVars, readVars, prodVars, authVars>>

AllocEgresoAgain ==
    /\ a_out.e # NoId
    /\ a_out.e2 = NoId
    /\ a_out' = [a_out EXCEPT !.e2 = next_egreso_id(ColumnWith(a_col, a_out.e), a_year)]
    /\ UNCHANGED <<storeVars, sessVars, histVars, a_col, a_year, finVars, readVars, prodVars, authVars>>

NextAlloc == AllocVenta \/ AllocEgreso \/ AllocVentaAgain \/ AllocEgresoAgain

SpecAlloc == InitAlloc /\ [][NextAlloc]_vars

(***************************************************************************)
(* Read harness: load_raw_sheet and save_sheet on arbitrary arguments      *)
(***************************************************************************)
\* ttl_s arguments around the routing thresholds of load_raw_sheet
TtlValues == {-1, 0, 45, 60, 61, 300, 301}

ReadSheets == {SHEET_INVENTARIO, SHEET_VENTAS_CAB}

\* the tables the harness stores and writes
TableOf(ws, k) ==
    IF ws = SHEET_INVENTARIO THEN <<InvRow("A", k, 0, TRUE)>>
    ELSE IF ws = SHEET_VENTAS_CAB THEN (IF k = 0 THEN << >> ELSE HighCab)
    ELSE << >>

InitRead ==
    /\ store = [ws \in Sheets |-> TableOf(ws, 1)]
    /\ cache = ClearedCache
    /\ allocated = << >>
    /\ SessionsIdle
    /\ AllocIdle
    /\ FinIdle
    /\ ReadIdle
    /\ ProdIdle
    /\ AuthIdle

\* df = load_raw_sheet(conn, ws, ttl_s)
ReadAny(ws, ttl_s, o) ==
    LET r == load_raw_sheet(ws, ttl_s, o)
    IN /\ r_out.n < MaxCalls
       /\ FaultOK(r.contacted, o)
       /\ cache' = r.cache
       /\ nFaults' = FaultCount(r.contacted, o)
       /\ r_out' = [n |-> r_out.n + 1,
                    last |-> [kind |-> "read", ws |-> ws, ttl_s |-> ttl_s,
                              o |-> IF r.contacted THEN o ELSE "none",
                              df |-> r.df, raised |-> r.raised, shown |-> r.shown,
                              contacted |-> r.contacted, stored |-> store[ws],
                              hit |-> [t \in Tiers |-> cache[<<t, ws>>] # NoEntry]]]
       /\ UNCHANGED <<store, sessVars, allocated, nCommits, nTransfers, nAdds,
                      allocVars, finVars, prodVars, authVars>>

\* save_sheet(conn, ws, df)
WriteAny(ws, k, o) ==
    /\ r_out.n < MaxCalls
    /\ FaultOK(TRUE, o)
    /\ store' = save_sheet(ws, TableOf(ws, k), o)
    /\ cache' = save_sheet_cache(o)
    /\ nFaults' = FaultCount(TRUE, o)
    /\ r_out' = [n |-> r_out.n + 1,
                 last |-> [kind |-> "write", ws |-> ws, o |-> o,
                           raised |-> save_sheet_raises(o),
                           had |-> {c \in CacheKeys : cache[c] # NoEntry}]]
    /\ UNCHANGED <<sessVars, allocated, nCommits, nTransfers, nAdds, allocVars, finVars, prodVars, authVars>>

NextRead ==
    \/ \E ws \in ReadSheets, ttl_s \in TtlValues, o \in Outcomes : ReadAny(ws, ttl_s, o)
    \/ \E ws \in ReadSheets, k \in {0, 1}, o \in Outcomes : WriteAny(ws, k, o)
    \/ \E k \in CacheKeys : Expire(k)

SpecRead == InitRead /\ [][NextRead]_vars

\* time passes: the TTL of every entry runs out
SpecReadLive == SpecRead /\ \A k \in CacheKeys : WF_vars(Expire(k))

(***************************************************************************)
(* Totals harness: the "Totales" block and cab_row on arbitrary form       *)
(* inputs                                                                  *)
(***************************************************************************)
MaxLines == 2
FinPrecios == {2500, 3000, 4500, 7500}
FinDescuentos == {0, 9900}
FinCantidades == {1, 2}
FinEnvios == {0, 300}
FinCostos == {0, 9000}
PceModes == {"2.99%", "Otro"}
FinPce == {0, 350}                   \* "Porcentaje PCE (%)" typed, in 1/100 %
CfgCells == {None, Blank, Num(500)}

\* what is on the form when "Añadir al carrito" is pressed
FinTyped == [precio_unit : FinPrecios, desc_in : FinDescuentos, qty : FinCantidades]
\* the line cart.append stores (lines 1771-1782)
FinLine(x) ==
    [Cantidad |-> x.qty, Precio_Unitario |-> x.precio_unit,
     Descuento_Unitario |-> desc_u(x.precio_unit, x.desc_in),
     Subtotal_Linea |-> subtotal_linea(x.precio_unit, x.desc_in, x.qty)]
FinCarts == UNION {[1..n -> FinTyped] : n \in 0..MaxLines}
FinCfgs == [COMISION_TARJETA_PORC : CfgCells, COMISION_PCE_PORC : CfgCells]

InitFin ==
    /\ store = [ws \in Sheets |-> << >>]
    /\ cache = ClearedCache
    /\ allocated = << >>
    /\ SessionsIdle
    /\ AllocIdle
    /\ ReadIdle
    /\ ProdIdle
    /\ AuthIdle
    /\ \E c \in FinCarts, e \in FinEnvios, k \in FinCostos, m \in MetodosPago,
          mode \in PceModes, p \in FinPce, cfg \in FinCfgs :
          f_in = [typed |-> c, cart |-> [i \in DOMAIN c |-> FinLine(c[i])],
                  envio_cliente |-> e, costo_courier |-> k,
                  metodo_pago |-> m, override_pce |-> OverrideOf(m, mode, p), cfg |-> cfg]
    /\ f_out = NoFin

\* a render of the sale form: the totals block (lines 1860-1866)
FinTotales ==
    /\ f_out = NoFin
    /\ f_out' = [tot |-> Totales(f_in.cart, f_in.envio_cliente, f_in.costo_courier,
                                 f_in.metodo_pago, f_in.cfg, f_in.override_pce),
                 row |-> None]
    /\ UNCHANGED <<storeVars, sessVars, histVars, allocVars, readVars, prodVars, authVars, f_in>>

\* REGISTRAR VENTA enabled and pressed (lines 1911-1926): cab_row is built
FinCabRow ==
    /\ f_out # NoFin
    /\ f_out.row = None
    /\ can_save(f_in.cart, <<"A", "n", "a">>, f_out.tot.total_cobrado)
    /\ f_out' = [f_out EXCEPT !.row = CabRow(FormatId("V", Year, 1),
                                             [cliente |-> <<"A", "n", "a">>] @@ f_out.tot)]
    /\ UNCHANGED <<storeVars, sessVars, histVars, allocVars, readVars, prodVars, authVars, f_in>>

NextFin == FinTotales \/ FinCabRow

SpecFin == InitFin /\ [][NextFin]_vars

(***************************************************************************)
(* Product creation harness ("Guardar producto", lines 1553-1662)          *)
(***************************************************************************)
MaxCreations == 2
\* colour labels of the Catalogos sheet, and two ways its Codigo column is filled
Colores == <<"Negro", "Negro Mate", "Rojo">>
Catalogos ==
    {[c \in {Colores[i] : i \in DOMAIN Colores} |->
         IF c = "Negro" THEN "NEG" ELSE IF c = "Negro Mate" THEN m ELSE "ROJ"] :
        m \in {"NMT", "NEG"}}
\* v_colors and v_sizes: what the two multiselects hold
ColorChoices == {<<"Negro">>, <<"Rojo">>, <<"Negro", "Negro Mate">>}
SizeChoices == {<<"S">>, <<"S", "M">>}

\* build_sku: the four segments of DROP-PROD-COLOR-TALLA
build_sku(drop_code, prod_code, color_code, size_code) ==
    <<drop_code, prod_code, color_code, size_code>>

\* ensure_unique_skus (lines 561-563)
ensure_unique_skus(new_skus, existing) ==
    LET dups == SelectSeq(new_skus, LAMBDA x : x \in existing)
    IN [ok |-> Len(dups) = 0, dups |-> dups]

\* rows (lines 1612-1640): one row per colour and size, colours outermost
NewRows(v_colors, v_sizes, color_to_code, almacen, qty) ==
    [k \in 1..(Len(v_colors) * Len(v_sizes)) |->
        LET col == v_colors[((k - 1) \div Len(v_sizes)) + 1]
            talla == v_sizes[((k - 1) % Len(v_sizes)) + 1]
        IN [SKU |-> build_sku("D1", "PRD", color_to_code[col], talla),
            Stock_Casa |-> IF almacen = "Casa" THEN qty ELSE 0,
            Stock_Bodega |-> IF almacen = "Bodega" THEN qty ELSE 0,
            Precio_Lista |-> 2500, Activo |-> TRUE]]

InitProd ==
    /\ \E seeded \in BOOLEAN :
          store = [ws \in Sheets |->
                     IF ws = SHEET_INVENTARIO /\ seeded
                     THEN NewRows(<<"Negro">>, <<"S">>, CHOOSE c \in Catalogos : TRUE, "Casa", 1)
                     ELSE << >>]
    /\ cache = ClearedCache
    /\ allocated = << >>
    /\ SessionsIdle
    /\ AllocIdle
    /\ FinIdle
    /\ ReadIdle
    /\ p_in \in Catalogos
    /\ p_out = [n |-> 0, last |-> NoProd]
    /\ AuthIdle

\* "Guardar producto" pressed (lines 1553-1662): inv_now through the short
\* tier, the rows, ensure_unique_skus, the append and save_sheet
CreateProduct(v_colors, v_sizes, almacen, o, ow) ==
    LET r == load_raw_sheet(SHEET_INVENTARIO, 45, o)
        inv_now == load_inventario(r.df)
        existing_skus == {inv_now[i].SKU : i \in DOMAIN inv_now}
        rows == NewRows(v_colors, v_sizes, p_in, almacen, 1)
        new_skus == [k \in DOMAIN rows |-> rows[k].SKU]
        u == ensure_unique_skus(new_skus, existing_skus)
        n1 == FaultCount(r.contacted, o)
    IN /\ p_out.n < MaxCreations
       /\ FaultOK(r.contacted, o)
       /\ IF ~u.ok
          THEN \* st.error("Estos SKUs ya existen ..."); st.stop()
               /\ ow = "ok"
               /\ UNCHANGED store
               /\ cache' = r.cache
               /\ nFaults' = n1
          ELSE /\ ow = "ok" \/ n1 < MaxFaults
               /\ store' = save_sheet(SHEET_INVENTARIO, inv_now \o rows, ow)
               /\ cache' = IF save_sheet_raises(ow) THEN r.cache ELSE ClearedCache
               /\ nFaults' = IF ow = "ok" THEN n1 ELSE n1 + 1
       /\ p_out' = [n |-> p_out.n + 1,
                    last |-> [new_skus |-> new_skus, dups |-> u.dups,
                              wrote |-> u.ok /\ ow = "ok"]]
       /\ UNCHANGED <<sessVars, allocated, nCommits, nTransfers, nAdds,
                      allocVars, finVars, readVars, p_in, authVars>>

NextProd ==
    \/ \E vc \in ColorChoices, vs \in SizeChoices, a \in Bodegas, o \in Outcomes,
          ow \in Outcomes : CreateProduct(vc, vs, a, o, ow)
    \/ \E o \in Outcomes : ViewScreen(o)
    \/ \E k \in CacheKeys : Expire(k)

SpecProd == InitProd /\ [][NextProd]_vars

(***************************************************************************)
(* Password gate: require_password at the top of every run (lines 33-106,  *)
(* 690-691)                                                                *)
(***************************************************************************)
MaxRuns == 4
\* values of APP_PASSWORD: two of the same length, one longer
Passwords == {<<"a", "b">>, <<"c", "d">>, <<"a", "b", "c">>}
\* what the run finds pressed: nothing of the gate, "Entrar", "Limpiar",
\* "Cerrar sesión"
Clicks == {"none", "submit", "clear", "logout"}

\* pw_fp = f"len:{len(str(app_pw))}" (line 46)
pw_fp(pw) == Num(Len(pw))

\* require_password() on session state ss with secret pw_conf, the button
\* found pressed and the text pw of the password field.  shown = what the
\* run rendered, rerun = it ended in st.rerun(), passed = it returned, so
\* that the script goes on to load data; under = the password of the last
\* successful login (history)
require_password(ss, pw_conf, click, pw) ==
    IF pw_conf = NoPw
    THEN [ss EXCEPT !.shown = "nopw", !.rerun = FALSE, !.passed = FALSE]
    ELSE LET s1 == IF ss.pw_fp # pw_fp(pw_conf)
                   THEN [ss EXCEPT !.pw_fp = pw_fp(pw_conf), !.auth_ok = FALSE]
                   ELSE ss
         IN IF s1.auth_ok
            THEN IF click = "logout"
                 THEN [s1 EXCEPT !.auth_ok = FALSE, !.shown = "app", !.rerun = TRUE,
                                 !.passed = FALSE]
                 ELSE [s1 EXCEPT !.shown = "app", !.rerun = FALSE, !.passed = TRUE]
            ELSE IF click = "clear"
                 THEN [s1 EXCEPT !.shown = "login", !.rerun = TRUE, !.passed = FALSE]
                 ELSE IF click = "submit" /\ pw = pw_conf
                 THEN [s1 EXCEPT !.auth_ok = TRUE, !.under = pw_conf, !.shown = "login",
                                 !.rerun = TRUE, !.passed = FALSE]
                 ELSE [s1 EXCEPT !.auth_ok = FALSE, !.shown = "login", !.rerun = FALSE,
                                 !.passed = FALSE]

InitAuth ==
    /\ store = [ws \in Sheets |-> << >>]
    /\ cache = ClearedCache
    /\ allocated = << >>
    /\ SessionsIdle
    /\ AllocIdle
    /\ FinIdle
    /\ ReadIdle
    /\ ProdIdle
    /\ app_pw \in Passwords \cup {NoPw}
    /\ auth = NoAuth

\* one script run of the session: a button can be found pressed only if the
\* run before rendered it, and the run started by st.rerun() finds none
GateRun(click, pw) ==
    /\ auth.n < MaxRuns
    /\ click \in {"submit", "clear"} => auth.shown = "login"
    /\ click = "logout" => auth.shown = "app"
    /\ auth.rerun => click = "none"
    /\ auth' = [require_password(auth, app_pw, click, pw) EXCEPT !.n = auth.n + 1]
    /\ UNCHANGED <<storeVars, sessVars, histVars, allocVars, finVars, readVars, prodVars,
                   app_pw>>

\* the secret is edited in Settings -> Secrets
SetPassword(pw) ==
    /\ pw # app_pw
    /\ app_pw' = pw
    /\ UNCHANGED <<storeVars, sessVars, histVars, allocVars, finVars, readVars, prodVars,
                   auth>>

NextAuth ==
    \/ \E click \in Clicks, pw \in Passwords \cup {NoPw} : GateRun(click, pw)
    \/ \E pw \in Passwords \cup {NoPw} : SetPassword(pw)

SpecAuth == InitAuth /\ [][NextAuth]_vars

(***************************************************************************)
(* Properties                                                              *)
(***************************************************************************)
CommitSteps == {"WritingHeader", "WritingDetail", "DecrementingStock", "Done"}
AfterValidation == {"AllocatingID", "AllocatingID_det"} \cup CommitSteps

\* the numeric suffix of an identifier P-YYYY-N...
Suffix(id) == IntOf(SubSeq(id, 8, Len(id)))

\* the largest element of a non-empty finite set of integers
MaxOf(S) == CHOOSE m \in S : \A x \in S : x <= m

\* C1: every Inventory row of the store has Stock_Casa >= 0 and
\* Stock_Bodega >= 0, whatever sale commits and transfers the sessions issued.
C1_StockNonNegative ==
    \A i \in DOMAIN inv : inv[i].Stock_Casa >= 0 /\ inv[i].Stock_Bodega >= 0

\* C2: the Inventory snapshot of the validation and the SaleHeader table of
\* the ID allocation equal the store's content at the moment they are read,
\* even when a copy of the table from an earlier read is still cached.
C2_CommitReadsAreFresh ==
    [][\A s \in Sessions :
          /\ (/\ pc[s] = "Validating" /\ pc'[s] # "Validating"
              /\ cache[<<45, SHEET_INVENTARIO>>] # NoEntry)
             => latest_inv'[s] = load_inventario(inv)
          /\ (/\ pc[s] = "AllocatingID" /\ pc'[s] # "AllocatingID"
              /\ cache[<<45, SHEET_VENTAS_CAB>>] # NoEntry)
             => cab_df'[s] = load_cabecera(cab)]_vars

\* a cart line that the snapshot cannot serve from the chosen warehouse:
\* its SKU is absent, or the row found for it holds less than the quantity
BadLine(item, snap, bodega) ==
    \/ ~(\E i \in DOMAIN snap : snap[i].SKU = item.SKU)
    \/ \E i \in DOMAIN snap :
          /\ snap[i].SKU = item.SKU
          /\ \A j \in 1..(i - 1) : snap[j].SKU # item.SKU
          /\ (IF bodega = "Casa" THEN snap[i].Stock_Casa ELSE snap[i].Stock_Bodega)
                < item.Cantidad

HasBadLine(s, snap) == \E i \in DOMAIN cart[s] : BadLine(cart[s][i], snap, bodega_venta[s])

\* C3: when a cart line's SKU is absent from the snapshot read at commit
\* time, or its quantity exceeds the stock of the chosen warehouse there,
\* the attempt fails having issued no write, and the three tables are as
\* they were; an attempt past validation has no such line.
C3_ValidationFailureWritesNothing ==
    /\ [](\A s \in Sessions : pc[s] \in AfterValidation => ~HasBadLine(s, latest_inv[s]))
    /\ [][\A s \in Sessions :
             (/\ pc[s] = "Validating" /\ pc'[s] # "Validating"
              /\ HasBadLine(s, latest_inv'[s]))
             => /\ pc'[s] = "Aborted"
                /\ wlog'[s] = << >>
                /\ store' = store]_vars

\* C3 witness: an attempt that failed on a line whose SKU is in the snapshot
\* with less stock than the line asks for, no write issued
C3_Witness ==
    \E s \in Sessions :
       /\ pc[s] = "Aborted"
       /\ wlog[s] = << >>
       /\ \E i \in DOMAIN cart[s], j \in DOMAIN latest_inv[s] :
             /\ latest_inv[s][j].SKU = cart[s][i].SKU
             /\ latest_inv[s][j].Stock_Casa < cart[s][i].Cantidad
             /\ bodega_venta[s] = "Casa"

\* C4: no two SaleHeader rows of the store share a Venta_ID, whatever
\* commit attempts were made (failed and rate-limited writes included).
C4_VentaIdUnique ==
    \A i, j \in DOMAIN cab : cab[i].Venta_ID = cab[j].Venta_ID => i = j

\* C5 as stated: within the year, each identifier allocated by a commit
\* attempt has a suffix larger than every suffix allocated before it, and
\* the first one allocated is 1.
C5_StrictlyIncreasing ==
    [][allocated' # allocated =>
          LET new == allocated'[Len(allocated')]
          IN /\ \A i \in DOMAIN allocated : Suffix(allocated[i]) < Suffix(new)
             /\ allocated = << >> => Suffix(new) = 1]_vars

\* an identifier V-<Year>-dddd of the year of the commits
SameYearId(id) ==
    /\ Len(id) = 11
    /\ SubSeq(id, 1, 7) = <<"V", "-", "2", "0", "2", "5", "-">>

\* the four-digit suffixes of the year in a header snapshot, and 0
SnapshotSuffixes(df) ==
    {Suffix(df[i].Venta_ID) : i \in {k \in DOMAIN df : SameYearId(df[k].Venta_ID)}} \cup {0}

\* C5: the identifier a commit attempt allocates is V-<year>-N with N one
\* more than the largest four-digit suffix of the year in the SaleHeader
\* snapshot that attempt read (1 when it holds none); the suffixes of
\* successive attempts need not increase.
C5_NextAfterSnapshot ==
    [][\A s \in Sessions :
          (venta_id'[s] # venta_id[s] /\ venta_id'[s] # NoId)
          => /\ SubSeq(venta_id'[s], 1, 7) = <<"V", "-", "2", "0", "2", "5", "-">>
             /\ Len(venta_id'[s]) >= 11
             /\ Suffix(venta_id'[s]) = 1 + MaxOf(SnapshotSuffixes(cab_df[s]))
             /\ allocated' = Append(allocated, venta_id'[s])]_vars

\* C5 witness: an attempt allocated an identifier from a snapshot that holds
\* a sale of the year, and an earlier allocation carries the same suffix
C5_Witness ==
    \E s \in Sessions :
       /\ pc[s] = "WritingHeader"
       /\ \E i \in DOMAIN cab_df[s] : SameYearId(cab_df[s][i].Venta_ID)
       /\ \E i \in 1..(Len(allocated) - 1) : allocated[i] = venta_id[s]

\* what the allocator must return for prefix p on the labelled table cells:
\* N is one more than the largest suffix among the well-formed cells of
\* prefix p and year y (1 when there is none), written with at least four digits
ExpectedN(p, cells, y) ==
    1 + MaxOf({cells[i].n : i \in {k \in DOMAIN cells :
                                     cells[k].ok /\ cells[k].pre = p /\ cells[k].y = y}}
              \cup {0})

IsExpectedId(id, p, cells, y) ==
    /\ Len(id) >= 11
    /\ id[1] = p /\ id[2] = "-" /\ id[7] = "-"
    /\ \A i \in (3..6) \cup (8..Len(id)) : IsDigit(id[i])
    /\ IntOf(SubSeq(id, 3, 6)) = y
    /\ Suffix(id) = ExpectedN(p, cells, y)
    /\ (Len(id) > 11 => id[8] # "0")

\* C6: for every table and target year the allocators return prefix-YEAR-N
\* with N = 1 + the largest suffix among the identifiers that match the
\* pattern and carry the target year, 0001 when there is none; other years
\* and identifiers that do not match the pattern do not influence the result.
C6_AllocatorResult ==
    /\ a_out.v # NoId => IsExpectedId(a_out.v, "V", a_col.cells, a_year)
    /\ a_out.e # NoId => IsExpectedId(a_out.e, "E", a_col.cells, a_year)

\* C6 witness: both allocators answered on a table holding an identifier of
\* another year with a larger suffix than the one of the target year
C6_Witness ==
    /\ a_out.v # NoId /\ a_out.e # NoId
    /\ \E i, j \in DOMAIN a_col.cells :
          /\ a_col.cells[i].ok /\ a_col.cells[i].pre = "V" /\ a_col.cells[i].y = a_year
          /\ a_col.cells[j].ok /\ a_col.cells[j].pre = "V" /\ a_col.cells[j].y # a_year
          /\ a_col.cells[j].n > a_col.cells[i].n
          /\ Suffix(a_out.v) = a_col.cells[i].n + 1

WriteOrder == <<SHEET_VENTAS_CAB, SHEET_VENTAS_DET, SHEET_INVENTARIO>>

\* the number of writes an attempt at position p has issued
WritesAt(p) ==
    IF p = "WritingDetail" THEN {1}
    ELSE IF p = "DecrementingStock" THEN {2}
    ELSE IF p = "Done" THEN {3}
    ELSE IF p = "Aborted" THEN 0..3
    ELSE {0}

\* the positions that may follow position p of an attempt
Successors(p) ==
    IF p = "idle" THEN {"Validating", "TransferRead"}
    ELSE IF p = "Validating" THEN {"AllocatingID", "Aborted"}
    ELSE IF p = "AllocatingID" THEN {"AllocatingID_det", "Aborted"}
    ELSE IF p = "AllocatingID_det" THEN {"WritingHeader", "Aborted"}
    ELSE IF p = "WritingHeader" THEN {"WritingDetail", "Aborted"}
    ELSE IF p = "WritingDetail" THEN {"DecrementingStock", "Aborted"}
    ELSE IF p = "DecrementingStock" THEN {"Done", "Aborted"}
    ELSE IF p = "TransferRead" THEN {"TransferWrite", "idle"}
    ELSE {"idle"}

\* C7: a commit attempt goes through Validating, Allocating-ID,
\* Writing-Header, Writing-Detail, Decrementing-Stock, Done in this order:
\* its writes are a prefix of header, detail, inventory, and the first of
\* them is issued only with every cart line validated and the ID allocated.
C7_CommitOrder ==
    /\ [](\A s \in Sessions :
            /\ Len(wlog[s]) \in WritesAt(pc[s])
            /\ \A i \in DOMAIN wlog[s] : wlog[s][i].sheet = WriteOrder[i]
            /\ (wlog[s] # << >> \/ pc[s] \in CommitSteps)
               => /\ venta_id[s] # NoId
                  /\ ~HasBadLine(s, latest_inv[s]))
    /\ [][\A s \in Sessions : pc'[s] # pc[s] => pc'[s] \in Successors(pc[s])]_vars

\* C7 witness: an attempt at Done with its three writes issued
C7_Witness ==
    \E s \in Sessions :
       /\ pc[s] = "Done"
       /\ [i \in DOMAIN wlog[s] |-> wlog[s][i].sheet] = WriteOrder

\* C8 as stated: an attempt ends in Aborted from Validating only.
C8_AbortedFromValidatingOnly ==
    [][\A s \in Sessions :
          (pc'[s] = "Aborted" /\ pc[s] # "Aborted") => pc[s] = "Validating"]_vars

\* C8: an attempt ends in Aborted either from Validating, or from one of the
\* three writing states on a write that the store refused with an error
\* other than a rate limit; the reads of the ID allocation and a
\* rate-limited write never end it there.
C8_AbortedFromValidatingOrWriteError ==
    [][\A s \in Sessions :
          (pc'[s] = "Aborted" /\ pc[s] # "Aborted")
          => \/ pc[s] = "Validating" /\ wlog'[s] = << >>
             \/ /\ pc[s] \in {"WritingHeader", "WritingDetail", "DecrementingStock"}
                /\ Len(wlog'[s]) = Len(wlog[s]) + 1
                /\ wlog'[s][Len(wlog'[s])].outcome = "error"
                /\ store' = store]_vars

\* C8 witness: an attempt that passed validation and ended in Aborted on its
\* detail write
C8_Witness ==
    \E s \in Sessions :
       /\ pc[s] = "Aborted"
       /\ Len(wlog[s]) = 2
       /\ wlog[s][1].outcome = "ok"
       /\ wlog[s][2].outcome = "error"
       /\ ~HasBadLine(s, latest_inv[s])

\* the header write of the current attempt of s was accepted by the store
HeaderAccepted(s) == wlog[s] # << >> /\ wlog[s][1].outcome = "ok"

\* C9: once the header write of an attempt was accepted, no later step of
\* that attempt changes the SaleHeader table, and a step that ends the
\* attempt on a failed write changes no table: nothing is taken back.
C9_NoRollback ==
    [][\A s \in Sessions :
          (HeaderAccepted(s) /\ pc'[s] # pc[s])
          => /\ cab' = cab
             /\ pc'[s] = "Aborted" => store' = store]_vars

\* C9 witness: an attempt failed after its header write was accepted; its
\* header row is stored, no detail row carries its identifier and the
\* inventory holds what the attempt validated
C9_Witness ==
    \E s \in Sessions :
       /\ pc[s] = "Aborted"
       /\ HeaderAccepted(s)
       /\ \E i \in DOMAIN cab : cab[i].Venta_ID = venta_id[s]
       /\ \A i \in DOMAIN det : det[i].Venta_ID # venta_id[s]
       /\ inv = latest_inv[s]

\* C10: a write of a commit attempt that failed, by a rate limit or by
\* another store error, is the last write that attempt issues.
C10_FailedWriteIsLast ==
    \A s \in Sessions : \A i \in DOMAIN wlog[s] :
       wlog[s][i].outcome # "ok" => i = Len(wlog[s])

\* session s had a write to sheet ws accepted by the store in this step
Accepted(s, ws) == wlog'[s] = Append(wlog[s], [sheet |-> ws, outcome |-> "ok"])

\* every row of table old is a row of table new, with the same field values
RowsKept(old, new) == \A i \in DOMAIN old : \E j \in DOMAIN new : new[j] = old[i]

\* C11: every header row stored before the header write of a commit is
\* stored with the same field values after it, whichever sessions commit
\* and wherever the header snapshot of the commit came from.
C11_HeaderAppendOnly ==
    [][\A s \in Sessions : Accepted(s, SHEET_VENTAS_CAB) => RowsKept(cab, cab')]_vars

\* C12: a commit whose read of a table came back empty while the store held
\* rows does not overwrite that table with content that drops stored rows, and
\* does not allocate an identifier that a stored header row carries.
C12_EmptyFallbackConservative ==
    [][\A s \in Sessions :
          /\ \A ws \in fallback[s] : Accepted(s, ws) => RowsKept(store[ws], store'[ws])
          /\ (/\ SHEET_VENTAS_CAB \in fallback[s]
              /\ venta_id'[s] # venta_id[s] /\ venta_id'[s] # NoId)
             => \A i \in DOMAIN cab : cab[i].Venta_ID # venta_id'[s]]_vars

\* the harness call of this step, when there is one
CallMade == r_out'.n = r_out.n + 1

\* C13: a write the store accepted leaves no entry in any of the three
\* tiers, so the read that follows it contacts the store and, when the
\* store answers, returns what the store holds then.
C13_AcceptedWriteClearsCache ==
    [][CallMade =>
          /\ (r_out'.last.kind = "write" /\ r_out'.last.o = "ok")
             => cache' = ClearedCache
          /\ (/\ r_out.n > 0 /\ r_out.last.kind = "write" /\ r_out.last.o = "ok"
              /\ cache = ClearedCache /\ r_out'.last.kind = "read")
             => /\ r_out'.last.contacted
                /\ r_out'.last.o = "ok" => r_out'.last.df = store[r_out'.last.ws]]_vars

\* C13 witness: an accepted write found entries in two tiers and left none
C13_Witness ==
    /\ r_out.n > 0 /\ r_out.last.kind = "write" /\ r_out.last.o = "ok"
    /\ \E c, d \in r_out.last.had : c[1] # d[1]
    /\ cache = ClearedCache

\* C14: a read that meets a rate limit does not raise: on the cached tiers
\* and on the direct path it returns the empty table and shows a warning or
\* an error.
C14_RateLimitedReadReturnsEmpty ==
    (r_out.n > 0 /\ r_out.last.kind = "read" /\ r_out.last.o = "rate_limit")
    => /\ ~r_out.last.raised
       /\ r_out.last.df = EmptyDF
       /\ r_out.last.shown \in {"warning", "error"}

\* C14 witness: a rate-limited direct read of a table that holds rows
C14_Witness ==
    /\ r_out.n > 0 /\ r_out.last.kind = "read" /\ r_out.last.o = "rate_limit"
    /\ r_out.last.ttl_s < 0
    /\ r_out.last.stored # << >>
    /\ r_out.last.df = EmptyDF /\ r_out.last.shown = "error"

\* session s is in a commit attempt that has allocated its identifier
HasAllocated(s) == venta_id[s] # NoId

\* C15: two commit attempts that allocate from the same SaleHeader snapshot,
\* neither having seen the other's header write, compute the same Venta_ID;
\* nothing keeps both from going on to write, and a state with two sales
\* carrying one Venta_ID is reachable.
C15_SameSnapshotSameId ==
    \A s, u \in Sessions :
       (HasAllocated(s) /\ HasAllocated(u) /\ cab_df[s] = cab_df[u])
       => /\ venta_id[s] = venta_id[u]
          /\ (pc[s] = "WritingHeader" /\ pc[u] = "WritingHeader" /\ s # u)
             => ENABLED WriteHeader(s, "ok") /\ ENABLED WriteHeader(u, "ok")

\* C15 witness: two sessions both reported a sale under the same Venta_ID
\* and the detail table holds a first line of each of them under it
C15_Witness ==
    /\ \A s \in Sessions : pc[s] = "Done" /\ reset_pending[s]
    /\ \E s, u \in Sessions : s # u /\ venta_id[s] = venta_id[u]
    /\ \E i, j \in DOMAIN det :
          /\ i # j
          /\ det[i].Venta_ID = det[j].Venta_ID
          /\ det[i].Linea = 1 /\ det[j].Linea = 1
          /\ \A s \in Sessions : det[i].Venta_ID = venta_id[s]

\* the validated snapshot with every cart quantity taken from the stock
\* column of the chosen warehouse in the row found for its SKU
SnapshotMinusCart(snap, c, bodega) ==
    [i \in DOMAIN snap |->
        LET first == \A j \in 1..(i - 1) : snap[j].SKU # snap[i].SKU
            q == IF first THEN SumQty(SelectSeq(c, LAMBDA x : x.SKU = snap[i].SKU)) ELSE 0
        IN IF bodega = "Casa" THEN [snap[i] EXCEPT !.Stock_Casa = @ - q]
           ELSE [snap[i] EXCEPT !.Stock_Bodega = @ - q]]

\* C16: the Inventory write of a commit stores the snapshot that commit
\* validated, less its own cart, whatever the store holds by then; two
\* commits that validated the same snapshot therefore leave the stock of
\* one sale only although both report success.
C16_StockWriteFromSnapshot ==
    [][\A s \in Sessions :
          Accepted(s, SHEET_INVENTARIO)
          => inv' = SnapshotMinusCart(latest_inv[s], cart[s], bodega_venta[s])]_vars

\* C16 witness: both sessions reported success for one unit of the same SKU
\* validated against the same snapshot, and the stored stock is one unit
\* below that snapshot
C16_Witness ==
    /\ \A s \in Sessions : pc[s] = "Done" /\ reset_pending[s] /\ latest_inv[s] # << >>
    /\ \E s, u \in Sessions :
          /\ s # u /\ latest_inv[s] = latest_inv[u]
          /\ \E i \in DOMAIN inv :
                /\ \A x \in Sessions : \E k \in DOMAIN cart[x] :
                      cart[x][k].SKU = inv[i].SKU /\ cart[x][k].Cantidad = 1
                /\ inv[i].Stock_Casa = latest_inv[s][i].Stock_Casa - 1

\* the sum of the Subtotal_Linea of the first n lines of a cart
SumFirst(c, n) ==
    LET f[k \in 0..n] == IF k = 0 THEN 0 ELSE f[k - 1] + c[k].Subtotal_Linea
    IN f[n]

Max0(x) == IF x < 0 THEN 0 ELSE x

\* the totals block has run on the inputs of f_in
TotalsDone == f_out # NoFin

\* C17: for every cart and every shipping amount the form accepts, the total
\* charged is max(0, sum of the line subtotals + shipping charged).
C17_TotalCharged ==
    TotalsDone
    => f_out.tot.total_cobrado
         = Max0(SumFirst(f_in.cart, Len(f_in.cart)) + f_in.envio_cliente)

\* C17 witness: a cart of two lines, one of them discounted down to nothing,
\* with shipping charged, and the total is the other line plus the shipping
C17_Witness ==
    /\ TotalsDone
    /\ Len(f_in.cart) = 2
    /\ f_in.cart[1].Subtotal_Linea = 0 /\ f_in.cart[1].Descuento_Unitario > 0
    /\ f_in.cart[2].Subtotal_Linea > 0
    /\ f_in.envio_cliente > 0
    /\ f_out.tot.total_cobrado = f_in.cart[2].Subtotal_Linea + f_in.envio_cliente

\* the rate the Config sheet gives for a key: the default when the key is
\* missing, 0 for an empty cell
Configured(cfg, key, default) ==
    IF cfg[key] = None THEN default
    ELSE IF cfg[key] = Blank THEN 0
    ELSE cfg[key].num

\* the percentage of a payment method: card rate, cash-on-delivery rate or
\* the override supplied, 0 for every other method
PercentOf(metodo, cfg, override) ==
    CASE metodo = Tarjeta -> Configured(cfg, "COMISION_TARJETA_PORC", 230)
      [] metodo = ContraEntrega ->
            IF override # None THEN override.num
            ELSE Configured(cfg, "COMISION_PCE_PORC", 299)
      [] OTHER -> 0

\* amount (cents) is product (1/10000 cent) rounded to the cent
IsCentOf(amount, product) ==
    /\ 2 * (10000 * amount - product) <= 10000
    /\ 2 * (product - 10000 * amount) <= 10000

\* C18: for every payment method the commission amount is the total charged
\* times the percentage of the method (to the cent): the configured card
\* rate for card, the configured cash-on-delivery rate or the override
\* supplied for cash on delivery, 0 for transfer, cash and any other method.
C18_Commission ==
    TotalsDone
    => LET pct == PercentOf(f_in.metodo_pago, f_in.cfg, f_in.override_pce)
       IN /\ f_out.tot.com_porc = pct
          /\ IsCentOf(f_out.tot.com_monto, f_out.tot.total_cobrado * pct)
          /\ f_in.metodo_pago \in {Transferencia, Efectivo} => f_out.tot.com_monto = 0

\* C18 witness: a cash-on-delivery sale with an override that differs from
\* the configured rate, charged a commission that is not a whole product
C18_Witness ==
    /\ TotalsDone
    /\ f_in.metodo_pago = ContraEntrega
    /\ f_in.override_pce # None
    /\ f_in.cfg["COMISION_PCE_PORC"] = Num(500)
    /\ f_out.tot.com_porc = 350
    /\ f_out.tot.com_monto > 0
    /\ 10000 * f_out.tot.com_monto # f_out.tot.total_cobrado * 350

\* the header row of the commit has been built
RowBuilt == TotalsDone /\ f_out.row # None

\* C19: every SaleHeader row a commit builds satisfies Monto_A_Recibir =
\* Total_Cobrado - Costo_Logistica_Total - Comision_Monto; no unit cost
\* enters it.
C19_NetToReceive ==
    RowBuilt
    => /\ f_out.row.Monto_A_Recibir
            = f_out.row.Total_Cobrado - f_out.row.Costo_Logistica_Total
              - f_out.row.Comision_Monto
       /\ f_out.row.Total_Cobrado = f_out.tot.total_cobrado
       /\ f_out.row.Costo_Logistica_Total = f_in.costo_courier
       /\ f_out.row.Comision_Monto = f_out.tot.com_monto

\* C19 witness: a card sale whose courier cost exceeds the total, so that
\* the amount to receive is negative after a commission was taken
C19_Witness ==
    /\ RowBuilt
    /\ f_in.metodo_pago = Tarjeta
    /\ f_out.row.Comision_Monto > 0
    /\ f_out.row.Costo_Logistica_Total > f_out.row.Total_Cobrado
    /\ f_out.row.Monto_A_Recibir < 0

\* the detail rows of the table that carry an identifier
DetailOf(table, vid) == SelectSeq(table, LAMBDA r : r.Venta_ID = vid)

\* a header row agrees with the detail rows stored under its Venta_ID
HeaderMatches(row, table) ==
    LET d == DetailOf(table, row.Venta_ID)
    IN row.Total_Cobrado = SumFirst(d, Len(d)) + row.Envio_Cobrado_Total

\* C20 (as stated): in every reachable state of the store, each SaleHeader
\* row's Total_Cobrado equals the sum of Subtotal_Linea over the SaleDetail
\* rows with the same Venta_ID plus the header's Envio_Cobrado_Total.
C20_HeaderMatchesDetail ==
    \A i \in DOMAIN cab : HeaderMatches(cab[i], det)

\* the rows a write appended to a table of n rows read before
Appended(table, n) == SubSeq(table, n + 1, Len(table))

\* C20 (amended): the header row and the detail rows one commit attempt
\* writes agree with each other: the header row appended carries the
\* attempt's Venta_ID and a Total_Cobrado equal to the sum of the cart's
\* Subtotal_Linea plus its Envio_Cobrado_Total, and the detail rows appended
\* carry the same Venta_ID and subtotals that add up to that Total_Cobrado
\* less the shipping.  The store as a whole agrees only once both writes of
\* the attempt were accepted and no other attempt touched the two tables.
C20_AttemptRowsAgree ==
    [][\A s \in Sessions :
          /\ Accepted(s, SHEET_VENTAS_CAB)
             => LET new == Appended(cab', Len(cab_df[s]))
                IN /\ Len(new) = 1
                   /\ new[1].Venta_ID = venta_id[s]
                   /\ new[1].Total_Cobrado
                        = SumFirst(cart[s], Len(cart[s])) + new[1].Envio_Cobrado_Total
                   /\ new[1].Envio_Cobrado_Total = sale[s].envio_cliente
          /\ Accepted(s, SHEET_VENTAS_DET)
             => LET new == Appended(det', Len(det_df[s]))
                IN /\ Len(new) = Len(cart[s])
                   /\ \A i \in DOMAIN new : new[i].Venta_ID = venta_id[s]
                   /\ SumFirst(new, Len(new)) + sale[s].envio_cliente
                        = sale[s].total_cobrado]_vars

\* C20 witness: a delivery sale went through both writes and its header row,
\* shipping included, agrees with the detail rows stored under its Venta_ID
C20_Witness ==
    \E s \in Sessions :
       /\ pc[s] = "Done"
       /\ wlog[s] = <<[sheet |-> SHEET_VENTAS_CAB, outcome |-> "ok"],
                      [sheet |-> SHEET_VENTAS_DET, outcome |-> "ok"],
                      [sheet |-> SHEET_INVENTARIO, outcome |-> "ok"]>>
       /\ \E i \in DOMAIN cab :
             /\ cab[i].Venta_ID = venta_id[s]
             /\ cab[i].Envio_Cobrado_Total > 0
             /\ DetailOf(det, venta_id[s]) # << >>
             /\ HeaderMatches(cab[i], det)
             /\ cab[i].Total_Cobrado > cab[i].Envio_Cobrado_Total

\* the cart holds one line of one unit whose typed discount exceeds the
\* list price plus the shipping charged
DiscountAboveAll ==
    /\ Len(f_in.typed) = 1
    /\ f_in.typed[1].qty = 1
    /\ f_in.typed[1].desc_in > f_in.typed[1].precio_unit + f_in.envio_cliente

\* C21: a discount exceeding list price + shipping is clamped to that sum, so
\* the total charged is exactly 0, is never negative, and the sale is
\* rejected by the non-positive-total rule.
C21_DiscountClampedToPricePlusShipping ==
    TotalsDone
    => /\ f_out.tot.total_cobrado >= 0
       /\ DiscountAboveAll
          => /\ f_out.tot.total_cobrado = 0
             /\ ~ENABLED FinCabRow

\* session s is inside a commit attempt or stopped in one
InCommit(s) == pc[s] \in {"Validating", "Aborted"} \cup AfterValidation

\* a text that is not empty and has no space at either end
Trimmed(w) == w # << >> /\ w[1] # " " /\ w[Len(w)] # " "

\* the commit sequence of s read or wrote in this step
CommitIO(s) ==
    \/ wlog'[s] # wlog[s] /\ wlog'[s] # << >>
    \/ latest_inv'[s] # latest_inv[s] /\ latest_inv'[s] # EmptyDF
    \/ cab_df'[s] # cab_df[s] /\ cab_df'[s] # EmptyDF
    \/ det_df'[s] # det_df[s] /\ det_df'[s] # EmptyDF
    \/ venta_id'[s] # venta_id[s] /\ venta_id'[s] # NoId

\* C22: a commit attempt starts only with at least one cart line, a client
\* name that is not empty after trimming and a total charged > 0; without
\* them no read or write of the commit sequence is performed.
C22_CommitStartsOnlyWhenValid ==
    /\ [](\A s \in Sessions :
             InCommit(s)
             => /\ Len(cart[s]) >= 1
                /\ sale[s] # NoSale
                /\ Trimmed(sale[s].cliente)
                /\ SumFirst(cart[s], Len(cart[s])) + sale[s].envio_cliente > 0
                /\ sale[s].total_cobrado > 0)
    /\ [][\A s \in Sessions : CommitIO(s) => InCommit(s)]_vars

\* C22 witness: one session is in its commit while the other, with a cart
\* whose total is 0, is still idle and has read or written nothing
C22_Witness ==
    \E s, u \in Sessions :
       /\ pc[s] = "AllocatingID" /\ latest_inv[s] # EmptyDF
       /\ pc[u] = "idle" /\ cart[u] # << >>
       /\ SumFirst(cart[u], Len(cart[u])) = 0
       /\ EnviosDe(u) = {0}
       /\ latest_inv[u] = EmptyDF /\ wlog[u] = << >>

\* the Linea values stored under an identifier are exactly 1..n, once each
LineasContiguous(table, vid) ==
    LET d == DetailOf(table, vid)
    IN \A k \in 1..Len(d) : Cardinality({i \in DOMAIN d : d[i].Linea = k}) = 1

\* C23 (as stated): in every reachable state of the store the SaleDetail
\* rows of one Venta_ID carry Linea values that are exactly 1..n without gaps
\* or repeats, so (Venta_ID, Linea) identifies a detail row.
C23_LineasContiguousInStore ==
    \A i \in DOMAIN det : LineasContiguous(det, det[i].Venta_ID)

\* C23 (amended): the SaleDetail rows one commit attempt appends carry its
\* Venta_ID and the Linea values 1..n in cart order, without gaps or repeats;
\* (Venta_ID, Linea) identifies a row of the store only as long as no two
\* attempts wrote under the same Venta_ID.
C23_AttemptLineasContiguous ==
    [][\A s \in Sessions :
          Accepted(s, SHEET_VENTAS_DET)
          => LET new == Appended(det', Len(det_df[s]))
             IN /\ DOMAIN new = DOMAIN cart[s]
                /\ \A i \in DOMAIN new :
                      /\ new[i].Linea = i
                      /\ new[i].Venta_ID = venta_id[s]
                      /\ new[i].SKU = cart[s][i].SKU]_vars

\* C23 witness: a sale of two lines went through and the store holds its
\* lines 1 and 2, and no other row, under its Venta_ID
C23_Witness ==
    \E s \in Sessions :
       /\ pc[s] = "Done" /\ Len(cart[s]) = 2
       /\ wlog[s][2] = [sheet |-> SHEET_VENTAS_DET, outcome |-> "ok"]
       /\ LET d == DetailOf(det, venta_id[s])
          IN Len(d) = 2 /\ d[1].Linea = 1 /\ d[2].Linea = 2

\* the stock column of a warehouse, and of the other one
Col(row, b) == IF b = "Casa" THEN row.Stock_Casa ELSE row.Stock_Bodega
OtherCol(row, b) == IF b = "Casa" THEN row.Stock_Bodega ELSE row.Stock_Casa
\* the name a warehouse is stored under
Label(b) == IF b = "Casa" THEN "Casa Chiky" ELSE "Gamaliel"

\* C24: a sale draws from exactly one warehouse: all detail rows one commit
\* writes carry the same Bodega_Salida, the warehouse selected for the sale,
\* and that is the warehouse whose stock column the commit validated and
\* decremented, whatever warehouse was selected when the lines were added.
C24_OneWarehousePerSale ==
    [][\A s \in Sessions :
          /\ InCommit(s) => bodega_venta'[s] = bodega_venta[s] \/ pc'[s] = "idle"
          /\ (pc[s] = "Validating" /\ pc'[s] = "AllocatingID")
             => \A i \in DOMAIN cart[s] :
                   \E k \in DOMAIN latest_inv'[s] :
                      /\ latest_inv'[s][k].SKU = cart[s][i].SKU
                      /\ \A j \in 1..(k - 1) : latest_inv'[s][j].SKU # cart[s][i].SKU
                      /\ Col(latest_inv'[s][k], bodega_venta[s]) >= cart[s][i].Cantidad
          /\ Accepted(s, SHEET_VENTAS_DET)
             => \A i \in DOMAIN det' :
                   i > Len(det_df[s]) => det'[i].Bodega_Salida = Label(bodega_venta[s])
          /\ Accepted(s, SHEET_INVENTARIO)
             => /\ DOMAIN inv' = DOMAIN latest_inv[s]
                /\ \A k \in DOMAIN inv' :
                      /\ OtherCol(inv'[k], bodega_venta[s])
                           = OtherCol(latest_inv[s][k], bodega_venta[s])
                      /\ Col(inv'[k], bodega_venta[s])
                           <= Col(latest_inv[s][k], bodega_venta[s])
                /\ \E k \in DOMAIN inv' :
                      Col(inv'[k], bodega_venta[s]) < Col(latest_inv[s][k], bodega_venta[s])]_vars

\* C24 witness: a sale went through whose line was added while the other
\* warehouse was selected; its detail row names the warehouse of the sale
C24_Witness ==
    \E s \in Sessions :
       /\ pc[s] = "Done" /\ reset_pending[s]
       /\ \E i \in DOMAIN cart[s] : cart[s][i].Bodega_Salida # bodega_venta[s]
       /\ \E i \in DOMAIN det :
             /\ det[i].Venta_ID = venta_id[s]
             /\ det[i].Bodega_Salida = Label(bodega_venta[s])

\* session s added a line to its cart in this step
Added(s) == Len(cart'[s]) = Len(cart[s]) + 1

\* the inventory snapshot the run of this step read: the short-tier entry
InvSnapshot == cache'[<<45, SHEET_INVENTARIO>>].df

\* C25: a line is added only with 1 <= quantity <= the stock of its SKU in
\* the sale's chosen warehouse in the last-read inventory snapshot, never
\* when that stock is <= 0; a change of the store leaves the carts as they
\* are, the bound is next looked at by the commit.
C25_AddBoundedBySnapshot ==
    [][\A s \in Sessions :
          /\ Added(s)
             => LET line == cart'[s][Len(cart'[s])]
                IN /\ cart'[s] = Append(cart[s], line)
                   /\ line.Bodega_Salida = bodega_venta[s]
                   /\ \E k \in DOMAIN InvSnapshot :
                         /\ InvSnapshot[k].SKU = line.SKU
                         /\ InvSnapshot[k].Activo
                         /\ Col(InvSnapshot[k], bodega_venta[s]) > 0
                         /\ 1 <= line.Cantidad
                         /\ line.Cantidad <= Col(InvSnapshot[k], bodega_venta[s])
          /\ store' # store => cart'[s] = cart[s]]_vars

\* C25 witness: a line added under a snapshot that showed stock sits in the
\* cart of an idle session although the store holds none of that stock now
C25_Witness ==
    \E s \in Sessions :
       /\ pc[s] = "idle" /\ cart[s] # << >>
       /\ \E k \in DOMAIN inv :
             /\ inv[k].SKU = cart[s][1].SKU
             /\ cart[s][1].Bodega_Salida = bodega_venta[s]
             /\ Col(inv[k], bodega_venta[s]) = 0
             /\ cart[s][1].Cantidad = 1

\* C26: a transfer re-reads Inventory past the cache at the moment of the
\* transfer, tests the quantity against that read, and stops without writing
\* when the source column of the SKU holds less than the quantity asked.
C26_TransferValidatesFreshRead ==
    [][\A s \in Sessions :
          (pc[s] = "TransferRead" /\ pc'[s] = "TransferWrite")
          => \E k \in DOMAIN inv :
                /\ inv[k].SKU = tr[s].sku
                /\ inv[k].Activo
                /\ Col(inv[k], tr[s].dir) >= tr[s].qty
                /\ \E j \in DOMAIN tr'[s].out :
                      /\ tr'[s].out[j].SKU = tr[s].sku
                      /\ Col(tr'[s].out[j], tr[s].dir) >= 0]_vars

\* C27: after any sequence of product creations, sale commits and transfers
\* no two Inventory rows share a SKU; a product creation whose generated SKUs
\* collide with stored ones or with each other writes nothing.
C27_SkuUnique ==
    \A i, j \in DOMAIN inv : i # j => inv[i].SKU # inv[j].SKU

\* the units the cart asks of a SKU
Asked(c, sku) ==
    LET f[k \in 0..Len(c)] ==
          IF k = 0 THEN 0 ELSE f[k - 1] + (IF c[k].SKU = sku THEN c[k].Cantidad ELSE 0)
    IN f[Len(c)]

\* C28: an accepted Inventory write of a commit differs from the validated
\* snapshot only in the chosen warehouse column of the SKUs in the cart:
\* that column is lower by exactly the sum of the cart quantities of the
\* SKU, the other column and the rows of other SKUs are unchanged, and the
\* table is stored by one overwrite.
C28_StockWriteFrame ==
    [][\A s \in Sessions :
          Accepted(s, SHEET_INVENTARIO)
          => LET snap == latest_inv[s]
                 b == bodega_venta[s]
             IN /\ Len(inv') = Len(snap)
                /\ \A k \in DOMAIN snap :
                      /\ inv'[k].SKU = snap[k].SKU
                      /\ inv'[k].Precio_Lista = snap[k].Precio_Lista
                      /\ inv'[k].Activo = snap[k].Activo
                      /\ OtherCol(inv'[k], b) = OtherCol(snap[k], b)
                      /\ Col(inv'[k], b) = Col(snap[k], b) - Asked(cart[s], snap[k].SKU)
                /\ cab' = cab /\ det' = det
                /\ Len(SelectSeq(wlog'[s], LAMBDA w : w.sheet = SHEET_INVENTARIO)) = 1]_vars

\* C28 witness: a sale of two lines of the same SKU went through; the
\* stored column is two units below the snapshot, the other column and the
\* row of the other SKU are as in the snapshot
C28_Witness ==
    \E s \in Sessions :
       /\ pc[s] = "Done" /\ reset_pending[s]
       /\ Len(cart[s]) = 2 /\ cart[s][1].SKU = cart[s][2].SKU
       /\ Len(inv) = 2 /\ Len(latest_inv[s]) = 2
       /\ \E k, j \in DOMAIN inv :
             /\ inv[k].SKU = cart[s][1].SKU
             /\ Col(inv[k], bodega_venta[s]) = Col(latest_inv[s][k], bodega_venta[s]) - 2
             /\ OtherCol(inv[k], bodega_venta[s]) = OtherCol(latest_inv[s][k], bodega_venta[s])
             /\ j # k /\ inv[j] = latest_inv[s][j]

\* the tier a ttl_s names: 0 for the read past the cache
TierNamed(ttl_s) ==
    IF ttl_s <= 0 THEN 0
    ELSE IF ttl_s <= 60 THEN 45
    ELSE IF ttl_s <= 300 THEN 180
    ELSE 600

\* C29: load_raw_sheet routes a read by its ttl_s: ttl_s <= 0 reads the store
\* directly without the cache, 1..60 goes through the short tier, 61..300
\* through the medium tier, anything above 300 through the long tier.
C29_RoutingByTtl ==
    (r_out.n > 0 /\ r_out.last.kind = "read")
    => LET t == TierNamed(r_out.last.ttl_s)
           ws == r_out.last.ws
       IN IF t = 0
          THEN r_out.last.contacted
          ELSE /\ r_out.last.contacted <=> ~r_out.last.hit[t]
               /\ cache[<<t, ws>>] # NoEntry
               /\ cache[<<t, ws>>].df = r_out.last.df

Running == {"Validating", "AllocatingID", "AllocatingID_det", "WritingHeader",
            "WritingDetail", "DecrementingStock"}
Stopped == {"Done", "Aborted"}

\* the statements an attempt at position p still has before it
Rank(p) ==
    CASE p = "Validating" -> 6
      [] p = "AllocatingID" -> 5
      [] p = "AllocatingID_det" -> 4
      [] p = "WritingHeader" -> 3
      [] p = "WritingDetail" -> 2
      [] p = "DecrementingStock" -> 1
      [] OTHER -> 0

\* C30: every commit attempt terminates: it reaches Done or stops where a
\* failure occurred, and no step of the sequence is retried: every store
\* call of the attempt moves it on, and a stopped attempt only returns to
\* the idle form.
C30_CommitTerminates ==
    /\ \A s \in Sessions : (pc[s] \in Running) ~> (pc[s] \in Stopped)
    /\ [][\A s \in Sessions :
             /\ (pc[s] \in Running /\ pc'[s] # pc[s])
                => pc'[s] \in Running \cup Stopped /\ Rank(pc'[s]) < Rank(pc[s])
             /\ (Len(wlog'[s]) > Len(wlog[s])) => pc'[s] # pc[s]
             /\ pc[s] \in Stopped => pc'[s] \in {pc[s], "idle"} /\ Len(wlog'[s]) <= Len(wlog[s])
             /\ (pc[s] # "Aborted" /\ pc'[s] = "Aborted" /\ Len(wlog'[s]) > Len(wlog[s]))
                => wlog'[s][Len(wlog'[s])].outcome = "error"]_vars

\* C30 witness: an attempt stopped at its detail write, which failed, with
\* the header written before it
C30_Witness ==
    \E s \in Sessions :
       /\ pc[s] = "Aborted"
       /\ Len(wlog[s]) = 2
       /\ wlog[s][1].outcome = "ok"
       /\ wlog[s][2] = [sheet |-> SHEET_VENTAS_DET, outcome |-> "error"]

\* two lines of one unit at 30.00 and 45.00 without discount, no shipping,
\* paid by card at the default rate of 2.30%
ScenarioB ==
    /\ f_in.typed = <<[precio_unit |-> 3000, desc_in |-> 0, qty |-> 1],
                      [precio_unit |-> 4500, desc_in |-> 0, qty |-> 1]>>
    /\ f_in.envio_cliente = 0
    /\ f_in.metodo_pago = Tarjeta
    /\ f_in.cfg.COMISION_TARJETA_PORC = None

\* C31: monetary outputs are rounded to the cent with an exact half cent
\* rounding up: the commission is the product total * rate plus half a cent,
\* cut to the cent; for subtotals 30.00 and 45.00, shipping 0.00 and the
\* card rate 2.30% the total charged is 75.00, the commission 1.73 and the
\* net to receive 75.00 - courier cost - 1.73.
C31_HalfCentRoundsUp ==
    TotalsDone
    => /\ f_out.tot.com_monto
            = (f_out.tot.total_cobrado * f_out.tot.com_porc + 5000) \div 10000
       /\ ScenarioB
          => /\ f_out.tot.total_cobrado = 7500
             /\ f_out.tot.com_monto = 173
             /\ f_out.tot.monto_a_recibir = 7500 - f_in.costo_courier - 173

\* C32: every identifier the allocators return has exactly 4 suffix digits
\* and matches the pattern they scan, and allocating again for the same year
\* after the returned identifier was appended returns a strictly larger
\* suffix, also when the largest suffix of the table is 9999.
C32_FourDigitSuffix ==
    /\ a_out.v # NoId => PatMatch("V", a_out.v)
    /\ a_out.e # NoId => PatMatch("E", a_out.e)
    /\ a_out.v2 # NoId => PatMatch("V", a_out.v2) /\ Suffix(a_out.v2) > Suffix(a_out.v)
    /\ a_out.e2 # NoId => PatMatch("E", a_out.e2) /\ Suffix(a_out.e2) > Suffix(a_out.e)

\* entry k holds the empty table of a failed read: the stored sheet has rows
BadEntry(k) == cache[k] # NoEntry /\ cache[k].df = EmptyDF /\ store[k[2]] # EmptyDF

\* the step is a load_raw_sheet of the sheet and tier of entry k
ReadsEntry(k) ==
    /\ r_out'.n = r_out.n + 1
    /\ r_out'.last.kind = "read"
    /\ r_out'.last.ws = k[2]
    /\ TierOf(r_out'.last.ttl_s) = k[1]

\* C33: a bad read is not cached indefinitely: the entry of a failed cached
\* read goes away (its TTL expires or a write clears the cache); until then
\* it is served unchanged to the reads of its sheet and tier, an accepted
\* write removes it, and the first read of a sheet and tier without an entry
\* contacts the store.
C33_BadReadNotCachedForever ==
    /\ \A k \in CacheKeys : BadEntry(k) ~> (cache[k] = NoEntry)
    /\ [][\A k \in CacheKeys :
             /\ BadEntry(k)
                => /\ cache'[k] \in {cache[k], NoEntry}
                   /\ ReadsEntry(k)
                      => /\ ~r_out'.last.contacted
                         /\ r_out'.last.df = EmptyDF
                         /\ cache'[k] = cache[k]
                   /\ (r_out'.n = r_out.n + 1 /\ r_out'.last.kind = "write"
                       /\ r_out'.last.o = "ok") => cache'[k] = NoEntry
             /\ (cache[k] = NoEntry /\ ReadsEntry(k))
                => /\ r_out'.last.contacted
                   /\ r_out'.last.o = "ok" => r_out'.last.df = store[k[2]]]_vars

\* C33 witness: a read was served the empty table of an earlier failed read
\* of a sheet that holds rows, and the entry is still in the cache
C33_Witness ==
    /\ r_out.n >= 2
    /\ r_out.last.kind = "read"
    /\ ~r_out.last.contacted
    /\ r_out.last.df = EmptyDF
    /\ BadEntry(<<TierOf(r_out.last.ttl_s), r_out.last.ws>>)

\* C34: the gate invalidates old sessions when the password changes: a run
\* of a session that was authenticated under a password other than the one
\* configured now sets _auth_ok to False and stops before the data is loaded.
C34_PasswordChangeInvalidates ==
    [][(auth'.n = auth.n + 1 /\ auth.auth_ok /\ app_pw # NoPw /\ auth.under # app_pw)
       => (~auth'.auth_ok /\ ~auth'.passed)]_vars

\* the three writes of the attempt of s were all accepted by the store
AllAccepted(s) ==
    /\ [i \in DOMAIN wlog[s] |-> wlog[s][i].sheet] = WriteOrder
    /\ \A i \in DOMAIN wlog[s] : wlog[s][i].outcome = "ok"

\* C35: a commit reports success and schedules the cart reset only if its
\* header write, its detail write and its stock write were all accepted by
\* the store; a rate-limited write never leads to a success report.
C35_SuccessOnlyIfAllAccepted ==
    \A s \in Sessions :
       (pc[s] = "Done" \/ reset_pending[s]) => AllAccepted(s)

\* no stock column of table df is below 0
NonNegative(df) == \A i \in DOMAIN df : df[i].Stock_Casa >= 0 /\ df[i].Stock_Bodega >= 0

\* C36: without a concurrent writer and with an up-to-date snapshot (the
\* stored inventory is the table the attempt validated, and holds no negative
\* stock), the stock write of a commit that passed validation leaves no stock
\* column below 0, whatever lines the cart holds.
C36_NoNegativeStockAlone ==
    [][\A s \in Sessions :
          (Accepted(s, SHEET_INVENTARIO) /\ latest_inv[s] = inv /\ NonNegative(inv))
          => NonNegative(inv')]_vars

\* the step is the accepted inventory write of the transfer of session s
TransferAccepted(s) == pc[s] = "TransferWrite" /\ pc'[s] # pc[s] /\ store' # store

\* C37: a successful transfer changes only the two stock columns of the
\* selected SKU and conserves their sum; every other Inventory row stored
\* before it, inactive ones included, is stored unchanged after it.
C37_TransferFrame ==
    [][\A s \in Sessions :
          TransferAccepted(s)
          => /\ cab' = cab /\ det' = det
             /\ \A i \in DOMAIN inv :
                   IF inv[i].SKU = tr[s].sku
                   THEN \E j \in DOMAIN inv' :
                           /\ inv'[j].SKU = inv[i].SKU
                           /\ inv'[j].Precio_Lista = inv[i].Precio_Lista
                           /\ inv'[j].Activo = inv[i].Activo
                           /\ inv'[j].Stock_Casa + inv'[j].Stock_Bodega
                                = inv[i].Stock_Casa + inv[i].Stock_Bodega
                   ELSE \E j \in DOMAIN inv' : inv'[j] = inv[i]]_vars

\* the rows of table df that carry identifier vid
RowsOf(df, vid) == {i \in DOMAIN df : df[i].Venta_ID = vid}

\* C38: a commit that reaches Done has added exactly one SaleHeader row and
\* exactly one SaleDetail row per cart line, all carrying the identifier
\* allocated in that attempt: when the attempt reaches Done the store holds
\* one header row and as many detail rows as the cart has lines under it.
C38_DoneAddsOneHeaderAndItsLines ==
    [][\A s \in Sessions :
          (pc[s] # "Done" /\ pc'[s] = "Done")
          => /\ Cardinality(RowsOf(cab', venta_id[s])) = 1
             /\ Cardinality(RowsOf(det', venta_id[s])) = Len(cart[s])]_vars

\* C39: cart lifecycle across runs: a commit that fails leaves the cart and
\* the form unchanged and does not set the flag; a commit that reports
\* success sets _reset_sale_pending with the cart still in place; the next
\* run clears the flag and resets the cart to empty and the form to its
\* defaults; the flag is set only between the success and that run.
C39_CartLifecycle ==
    /\ [](\A s \in Sessions : reset_pending[s] => pc[s] = "Done")
    /\ [][\A s \in Sessions :
             /\ (pc[s] \in Running \cup {"Aborted"})
                => /\ cart'[s] = cart[s]
                   /\ bodega_venta'[s] = bodega_venta[s]
             /\ (pc[s] \in Running /\ pc'[s] = "Aborted") => ~reset_pending'[s]
             /\ (pc[s] \in Running /\ pc'[s] = "Done") => reset_pending'[s]
             /\ (pc[s] = "Done" /\ pc'[s] # "Done")
                => /\ pc'[s] = "idle"
                   /\ ~reset_pending'[s]
                   /\ cart'[s] = << >>
                   /\ bodega_venta'[s] = "Casa"]_vars

\* C39 witness: lines were added, a sale was reported, and the run after it
\* left every cart empty, no flag set and the form on its default warehouse
C39_Witness ==
    /\ nAdds >= 1
    /\ nCommits >= 1
    /\ \A s \in Sessions :
          /\ pc[s] = "idle"
          /\ cart[s] = << >>
          /\ ~reset_pending[s]
          /\ bodega_venta[s] = "Casa"

====
